---------------------------- MODULE Spec2Model ----------------------------
(***************************************************************************)
(* Model of the vector path reconstruction of pdf2dwg                      *)
(* (src/src/pdf2dwg/pdf_extractor.py): PDFVectorExtractor.extract_page,    *)
(* the per-path command loop of _extract_drawings, the curve flatteners    *)
(* _bezier_to_points / _quad_bezier_to_points and the classifier           *)
(* _save_path_entity / _is_rectangle.                                      *)
(*                                                                         *)
(* Numbers.  The program computes with floats.  The model is a fixed-point *)
(* one: a coordinate is an integer number of units, Unit units making 1.0, *)
(* so that one unit is half of the tolerance of Point.__eq__ (1e-6) and    *)
(* both tolerances of the program (1e-6 and 0.5) are whole numbers of     *)
(* units.  Sums, differences, products by the scale, minima and maxima are *)
(* exact.  A flattened curve point, a quotient by segments^3 (segments^2), *)
(* is rounded down to a whole unit, i.e. by less than 5e-7.  Lengths       *)
(* (Point.distance_to) are computed in thousandths of 1.0, rounded down.   *)
(***************************************************************************)
EXTENDS Integers, Sequences, FiniteSets, TLC

\* ------------------------------------------------------------------ numbers

\* Point.__eq__ compares with the tolerance 1e-6 = 1 / TolDen
TolDen == 1000000

\* units per 1.0: one unit is 5e-7
Unit == 2 * TolDen

\* the tolerance of Point.__eq__, in units
EqTol == Unit \div TolDen

\* units per thousandth of 1.0; lengths are measured in thousandths
Milli == Unit \div 1000

Abs(n) == IF n < 0 THEN 0 - n ELSE n

Min2(a, b) == IF a <= b THEN a ELSE b

Max2(a, b) == IF a >= b THEN a ELSE b

\* the last element of a non-empty sequence
Last(seq) == seq[Len(seq)]

RECURSIVE ISqrtIter(_, _, _)
\* largest r in lo..hi with r * r <= n, by bisection (hi < 46341 keeps r * r in range)
ISqrtIter(n, lo, hi) ==
    IF lo >= hi THEN lo
    ELSE LET mid == (lo + hi + 1) \div 2
         IN  IF mid * mid <= n THEN ISqrtIter(n, mid, hi)
                               ELSE ISqrtIter(n, lo, mid - 1)

\* math.sqrt on a non-negative integer, rounded down
ISqrt(n) == ISqrtIter(n, 0, 46340)

\* ------------------------------------------------------------------- points

\* Optional values (None or a value) are sequences of length 0 or 1.
None == << >>

Some(v) == << v >>

IsNone(o) == o = << >>

Val(o) == o[1]

\* Point(x, y)
Point(x, y) == [x |-> x, y |-> y]

\* Point.__eq__: abs(dx) < 1e-6 and abs(dy) < 1e-6
PointEq(a, b) == Abs(a.x - b.x) < EqTol /\ Abs(a.y - b.y) < EqTol

\* round(v, 6) of a coordinate: a whole number of 1e-6 is itself; a
\* coordinate halfway between two rounds to one of them, which one depending
\* on its binary representation: up for the coordinates in the set up
round6(v, up) ==
    IF v % EqTol = 0 THEN v ELSE IF v \in up THEN v + 1 ELSE v - 1

\* Point.__hash__: hash((round(self.x, 6), round(self.y, 6))); the hash of
\* a tuple is taken to tell tuples apart
__hash__(p, up) == << round6(p.x, up), round6(p.y, up) >>

\* the largest coordinate difference whose square is still summed in units
SmallSpan == 15 * Milli

\* the largest coordinate difference whose square is still summed in thousandths
MidSpan == 32000 * Milli

\* Point.distance_to, in thousandths, rounded down (short distances are
\* measured in units first, longer ones in thousandths throughout, and the
\* longest in hundredths)
distance_to(a, b) ==
    LET dx == Abs(a.x - b.x)
        dy == Abs(a.y - b.y)
    IN  IF dx <= SmallSpan /\ dy <= SmallSpan
        THEN ISqrt(dx * dx + dy * dy) \div Milli
        ELSE IF dx <= MidSpan /\ dy <= MidSpan
        THEN ISqrt((dx \div Milli) * (dx \div Milli) + (dy \div Milli) * (dy \div Milli))
        ELSE 10 * ISqrt((dx \div (10 * Milli)) * (dx \div (10 * Milli))
                        + (dy \div (10 * Milli)) * (dy \div (10 * Milli)))

\* distance_to(a, b) > 0.001, decided exactly on the units
FartherThanMilli(a, b) ==
    LET dx == Abs(a.x - b.x)
        dy == Abs(a.y - b.y)
    IN  \/ dx > Milli
        \/ dy > Milli
        \/ dx * dx + dy * dy > Milli * Milli

\* ---------------------------------------------------------- curve flattener

\* the three base-1000 digits of a coordinate, most significant first
Digits(v) == << v \div 1000000, (v % 1000000) \div 1000, v % 1000 >>

RECURSIVE DotFrom(_, _, _, _)
\* w[k] * vs[k][d] + ... + w[Len(w)] * vs[Len(w)][d]
DotFrom(w, vs, d, k) ==
    IF k > Len(w) THEN 0 ELSE w[k] * Digits(vs[k])[d] + DotFrom(w, vs, d, k + 1)

\* (w[1] * vs[1] + ... + w[n] * vs[n]) / den rounded down, by long division
\* on the base-1000 digits (no intermediate value leaves the 32-bit range)
WeightedMean(w, vs, den) ==
    LET A  == DotFrom(w, vs, 1, 1)
        B  == DotFrom(w, vs, 2, 1)
        C  == DotFrom(w, vs, 3, 1)
        t1 == (A % den) * 1000 + B
        t2 == (t1 % den) * 1000 + C
    IN  (A \div den) * 1000000 + (t1 \div den) * 1000 + (t2 \div den)

\* the segment count of a cubic whose highest tier is not capped at 64
CubicSegmentsUncapped(p0, p1, p2, p3, segments) ==
    LET chord_length   == distance_to(p0, p3)
        control_length == distance_to(p0, p1) + distance_to(p1, p2) + distance_to(p2, p3)
    IN  IF FartherThanMilli(p0, p3) /\ 10 * control_length > 15 * chord_length
        THEN (segments * control_length) \div chord_length
        ELSE Max2(segments, 24)

\* the segment count of a cubic whose ratio tiers are not guarded by
\* chord_length > 0.001, a shorter chord counting as 0.001
CubicSegmentsUnguarded(p0, p1, p2, p3, segments) ==
    LET chord_length   == Max2(1, distance_to(p0, p3))
        control_length == distance_to(p0, p1) + distance_to(p1, p2) + distance_to(p2, p3)
    IN  IF 10 * control_length > 15 * chord_length
        THEN Min2(64, (segments * control_length) \div chord_length)
        ELSE segments

\* the adaptive segment count of _bezier_to_points (adaptive = True)
CubicSegments(p0, p1, p2, p3, segments) ==
    LET chord_length   == distance_to(p0, p3)
        control_length == distance_to(p0, p1) + distance_to(p1, p2) + distance_to(p2, p3)
        byRatio ==
            IF FartherThanMilli(p0, p3)
            THEN IF 10 * control_length > 15 * chord_length
                 THEN Min2(64, (segments * control_length) \div chord_length)
                 ELSE IF 10 * control_length > 12 * chord_length
                      THEN Min2(48, (segments * 15) \div 10)
                      ELSE IF 10 * control_length > 11 * chord_length
                           THEN Min2(32, (segments * 12) \div 10)
                           ELSE segments
            ELSE segments
    IN  IF control_length > 100 * 1000 THEN Max2(byRatio, 32)
        ELSE IF control_length > 50 * 1000 THEN Max2(byRatio, 24)
        ELSE byRatio

\* the Bernstein weights of the cubic at t = i / n, times n^3
CubicWeights(i, n) ==
    << (n - i) * (n - i) * (n - i), 3 * (n - i) * (n - i) * i,
       3 * (n - i) * i * i, i * i * i >>

\* the cubic sampled at t = i / segments for i in range(segments) only, so
\* that the point at t = 1 is missing
_bezier_to_points_open(p0, p1, p2, p3, segments) ==
    LET n == CubicSegments(p0, p1, p2, p3, segments)
    IN  [k \in 1..n |->
            Point(WeightedMean(CubicWeights(k - 1, n), << p0.x, p1.x, p2.x, p3.x >>, n * n * n),
                  WeightedMean(CubicWeights(k - 1, n), << p0.y, p1.y, p2.y, p3.y >>, n * n * n))]

\* _bezier_to_points(p0, p1, p2, p3, segments): segments + 1 points, t = i / segments
_bezier_to_points(p0, p1, p2, p3, segments) ==
    LET n == CubicSegments(p0, p1, p2, p3, segments)
    IN  [k \in 1..(n + 1) |->
            Point(WeightedMean(CubicWeights(k - 1, n), << p0.x, p1.x, p2.x, p3.x >>, n * n * n),
                  WeightedMean(CubicWeights(k - 1, n), << p0.y, p1.y, p2.y, p3.y >>, n * n * n))]

\* the adaptive segment count of _quad_bezier_to_points (adaptive = True)
QuadSegments(p0, p1, p2, segments) ==
    LET chord_length   == distance_to(p0, p2)
        control_length == distance_to(p0, p1) + distance_to(p1, p2)
    IN  IF FartherThanMilli(p0, p2)
        THEN IF 10 * control_length > 13 * chord_length
             THEN Min2(32, (segments * control_length) \div chord_length)
             ELSE IF 10 * control_length > 11 * chord_length
                  THEN Min2(24, (segments * 13) \div 10)
                  ELSE segments
        ELSE segments

\* the Bernstein weights of the quadratic at t = i / n, times n^2
QuadWeights(i, n) == << (n - i) * (n - i), 2 * (n - i) * i, i * i >>

\* _quad_bezier_to_points(p0, p1, p2, segments)
_quad_bezier_to_points(p0, p1, p2, segments) ==
    LET n == QuadSegments(p0, p1, p2, segments)
    IN  [k \in 1..(n + 1) |->
            Point(WeightedMean(QuadWeights(k - 1, n), << p0.x, p1.x, p2.x >>, n * n),
                  WeightedMean(QuadWeights(k - 1, n), << p0.y, p1.y, p2.y >>, n * n))]

\* ------------------------------------------------------------ the classifier

\* tolerance = 0.5 of _is_rectangle, in units
tolerance == Unit \div 2

RECURSIVE ScanVals(_, _, _)
\* the x_vals (y_vals) loop of _is_rectangle over vals[k..]: a value joins the
\* list acc unless it lies within the tolerance of a value already in it
ScanVals(vals, acc, k) ==
    IF k > Len(vals) THEN acc
    ELSE IF \E j \in 1..Len(acc) : Abs(vals[k] - acc[j]) < tolerance
         THEN ScanVals(vals, acc, k + 1)
         ELSE ScanVals(vals, Append(acc, vals[k]), k + 1)

\* _is_rectangle accepting fewer than two distinct values
_is_rectangle_AtMostTwo(points) ==
    IF Len(points) < 4 THEN FALSE
    ELSE LET pts    == SubSeq(points, 1, 4)
             x_vals == ScanVals([k \in 1..4 |-> pts[k].x], << >>, 1)
             y_vals == ScanVals([k \in 1..4 |-> pts[k].y], << >>, 1)
         IN  Len(x_vals) <= 2 /\ Len(y_vals) <= 2

\* _is_rectangle(points)
_is_rectangle(points) ==
    IF Len(points) < 4 THEN FALSE
    ELSE LET pts    == SubSeq(points, 1, 4)
             x_vals == ScanVals([k \in 1..4 |-> pts[k].x], << >>, 1)
             y_vals == ScanVals([k \in 1..4 |-> pts[k].y], << >>, 1)
         IN  Len(x_vals) = 2 /\ Len(y_vals) = 2

\* min(...) taken to be the first of the four values
Min4First(v) == v[1]

\* min(...) and max(...) over the four values of a sequence
Min4(v) == Min2(Min2(v[1], v[2]), Min2(v[3], v[4]))

Max4(v) == Max2(Max2(v[1], v[2]), Max2(v[3], v[4]))

\* Hatch(boundary_paths=[points], pattern_name="SOLID", color=fill_color)
Hatch(points, fill_color) ==
    [boundary_paths |-> << points >>, pattern_name |-> "SOLID", color |-> fill_color]

\* _save_path_entity(points, closed, color, width, linetype, fill_color, data):
\* the data after the call.  st is the record of the path's style locals.
_save_path_entity(points, closed, st, d) ==
    IF Len(points) = 2
    THEN [d EXCEPT !.lines = Append(@,
            [start |-> points[1], end |-> points[2], color |-> st.color,
             width |-> st.width, linetype |-> st.linetype])]
    ELSE IF Len(points) >= 4 /\ closed /\ _is_rectangle(points)
    THEN LET xs    == [k \in 1..4 |-> points[k].x]
             ys    == [k \in 1..4 |-> points[k].y]
             min_x == Min4(xs)
             min_y == Min4(ys)
             max_x == Max4(xs)
             max_y == Max4(ys)
         IN  [d EXCEPT !.rectangles = Append(@,
                [corner |-> Point(min_x, min_y), width |-> max_x - min_x,
                 height |-> max_y - min_y, color |-> st.color,
                 line_width |-> st.width, linetype |-> st.linetype,
                 fill_color |-> st.fill_color])]
    ELSE LET withPoly == [d EXCEPT !.polylines = Append(@,
                            [points |-> points, closed |-> closed, color |-> st.color,
                             width |-> st.width, linetype |-> st.linetype])]
         IN  IF closed /\ ~IsNone(st.fill_color) /\ Len(points) >= 3
             THEN [withPoly EXCEPT !.hatches = Append(@, Hatch(points, Val(st.fill_color)))]
             ELSE withPoly

RECURSIVE SaveSubpaths(_, _, _, _)
\* the loop "for subpath in all_subpaths" that saves each subpath as an entity
SaveSubpaths(subs, k, st, d) ==
    IF k > Len(subs) THEN d
    ELSE SaveSubpaths(subs, k + 1, st,
            IF Len(subs[k].points) < 2 THEN d
            ELSE _save_path_entity(subs[k].points, subs[k].closed, st, d))

RECURSIVE HatchSubpaths(_, _, _, _)
\* the loop over all_subpaths of a filled, non-stroked path: a hatch for every
\* closed subpath with >= 3 points
HatchSubpaths(subs, k, st, d) ==
    IF k > Len(subs) THEN d
    ELSE HatchSubpaths(subs, k + 1, st,
            IF subs[k].closed /\ Len(subs[k].points) >= 3
            THEN [d EXCEPT !.hatches = Append(@, Hatch(subs[k].points, Val(st.fill_color)))]
            ELSE d)

\* ---------------------------------------------------------------- rationals

(***************************************************************************)
(* The fitters compute with floats on points that need not lie on the grid *)
(* of the path reconstruction.  Their model computes with exact rationals: *)
(* a number is a record [n, d] in lowest terms with d > 0.  A square root  *)
(* is exact when the rational is a square and is otherwise rounded down to *)
(* a thousandth.  An angle in radians is a whole number of parts of which  *)
(* Pi make pi (1e-6 rad each, nearly); an angle in degrees is a whole      *)
(* number of thousandths of a degree.                                      *)
(***************************************************************************)

RECURSIVE Gcd(_, _)
\* greatest common divisor of two naturals
Gcd(a, b) == IF b = 0 THEN a ELSE Gcd(b, a % b)

\* the rational n / d in lowest terms (d # 0)
Rat(n, d) ==
    LET g == Gcd(Abs(n), Abs(d))
    IN  [n |-> (IF d < 0 THEN 0 - n ELSE n) \div g, d |-> Abs(d) \div g]

\* the rational of a whole number
Q(k) == [n |-> k, d |-> 1]

RNeg(a) == [n |-> 0 - a.n, d |-> a.d]

RAdd(a, b) ==
    LET g == Gcd(a.d, b.d)
    IN  Rat(a.n * (b.d \div g) + b.n * (a.d \div g), a.d * (b.d \div g))

RSub(a, b) == RAdd(a, RNeg(b))

RMul(a, b) ==
    IF a.n = 0 \/ b.n = 0 THEN Q(0)
    ELSE LET g1 == Gcd(Abs(a.n), b.d)
             g2 == Gcd(Abs(b.n), a.d)
         IN  Rat((a.n \div g1) * (b.n \div g2), (a.d \div g2) * (b.d \div g1))

\* a / b (b # 0)
RDiv(a, b) == RMul(a, Rat(b.d, b.n))

RLess(a, b) ==
    LET g == Gcd(a.d, b.d)
    IN  a.n * (b.d \div g) < b.n * (a.d \div g)

RAbs(a) == [n |-> Abs(a.n), d |-> a.d]

\* F(v) for the value v of x: x is evaluated once, before F
Let(x, F(_)) == CHOOSE r \in {F(v) : v \in {x}} : TRUE

\* a sequence with its elements evaluated
Tuple(seq) == SubSeq(seq, 1, Len(seq))

RECURSIVE SumOver(_, _, _)
\* the sum of the whole numbers F(lo), ..., F(hi), by halves
SumOver(F(_), lo, hi) ==
    IF lo > hi THEN 0
    ELSE IF lo = hi THEN F(lo)
    ELSE SumOver(F, lo, (lo + hi) \div 2) + SumOver(F, (lo + hi) \div 2 + 1, hi)

RECURSIVE RSumOver(_, _, _)
\* the sum of the rationals F(lo), ..., F(hi), by halves
RSumOver(F(_), lo, hi) ==
    IF lo > hi THEN Q(0)
    ELSE IF lo = hi THEN F(lo)
    ELSE RAdd(RSumOver(F, lo, (lo + hi) \div 2), RSumOver(F, (lo + hi) \div 2 + 1, hi))

\* x * x
RSquare(x) == RMul(x, x)

RECURSIVE ScaleDiv(_, _, _)
\* t * 10^k \div den for naturals, by long division (10 * den stays in range)
ScaleDiv(t, den, k) ==
    IF k = 0 THEN t \div den
    ELSE (t \div den) * 10^k + ScaleDiv((t % den) * 10, den, k - 1)

\* a natural that is the square of a natural
IsSquare(k) == ISqrt(k) * ISqrt(k) = k

\* math.sqrt on a rational a >= 0: exact for the square of a rational, else
\* rounded down to a thousandth
RSqrt(a) ==
    IF IsSquare(a.n) /\ IsSquare(a.d) THEN Rat(ISqrt(a.n), ISqrt(a.d))
    ELSE Rat(ISqrt(ScaleDiv(a.n, a.d, 6)), 1000)

\* ------------------------------------------------------------------- angles

\* pi / 2, pi and 2 * pi in parts of a radian
HalfPi == 1570796

Pi == 2 * HalfPi

TwoPi == 2 * Pi

\* atan(2^-i) for i = 0, 1, ... in parts of a radian
AtanTable ==
    << 785398, 463648, 244979, 124355, 62419, 31240, 15624, 7812, 3906, 1953,
       977, 488, 244, 122, 61, 31, 15, 8, 4, 2 >>

\* the length to which a vector is brought before its angle is taken
AtanScale == 1048576

RECURSIVE AtanIter(_, _, _, _)
\* the angle of the vector (x, y), x > 0, by successive rotations through
\* the angles of AtanTable, from rotation i on; z is the angle turned so far
AtanIter(x, y, z, i) ==
    IF i > Len(AtanTable) \/ y = 0 THEN z
    ELSE LET dx == x \div 2^(i - 1)
             dy == y \div 2^(i - 1)
         IN  IF y > 0 THEN AtanIter(x + dy, y - dx, z + AtanTable[i], i + 1)
                      ELSE AtanIter(x - dy, y + dx, z - AtanTable[i], i + 1)

\* the angle of the vector (x, y) for x > 0 and y > 0
AtanFirst(y, x) ==
    LET k == AtanScale \div Max2(x, y)
    IN  IF x = y THEN HalfPi \div 2
        ELSE IF k >= 1 THEN AtanIter(x * k, y * k, 0, 1)
        ELSE AtanIter(x, y, 0, 1)

\* math.atan2(y, x) on whole numbers: exact on the axes and the diagonals
Atan2(y, x) ==
    IF y = 0 THEN (IF x >= 0 THEN 0 ELSE Pi)
    ELSE IF x = 0 THEN (IF y > 0 THEN HalfPi ELSE 0 - HalfPi)
    ELSE LET a == AtanFirst(Abs(y), Abs(x))
         IN  IF x > 0 THEN (IF y > 0 THEN a ELSE 0 - a)
                      ELSE (IF y > 0 THEN Pi - a ELSE a - Pi)

\* math.atan2(y, x) on rationals: of the same vector stretched to whole numbers
RAtan2(y, x) ==
    LET g == Gcd(y.d, x.d)
    IN  Atan2(y.n * (x.d \div g), x.n * (y.d \div g))

\* math.degrees(r), in thousandths of a degree, rounded toward 0
Degrees(r) ==
    IF r < 0 THEN 0 - ScaleDiv((0 - r) * 180, Pi, 3) ELSE ScaleDiv(r * 180, Pi, 3)

\* the place of seq[j] in the ascending order; equal elements keep their order
Rank(seq, j) ==
    Cardinality({m \in 1..Len(seq) : seq[m] < seq[j] \/ (seq[m] = seq[j] /\ m <= j)})

\* list.sort() of a sequence of whole numbers
Sorted(seq) ==
    Let(Tuple(seq), LAMBDA s :
    Let(Tuple([j \in 1..Len(s) |-> Rank(s, j)]), LAMBDA ranks :
        Tuple([k \in 1..Len(s) |-> s[CHOOSE j \in 1..Len(s) : ranks[j] = k]])))

\* ----------------------------------------------------- the circle/arc fitter

\* least common multiple of two positive naturals
Lcm(a, b) == (a \div Gcd(a, b)) * b

RECURSIVE CommonDen(_, _, _)
\* a common denominator of the coordinates of points[lo..hi], by halves
CommonDen(points, lo, hi) ==
    IF lo > hi THEN 1
    ELSE IF lo = hi THEN Lcm(points[lo].x.d, points[lo].y.d)
    ELSE Lcm(CommonDen(points, lo, (lo + hi) \div 2),
             CommonDen(points, (lo + hi) \div 2 + 1, hi))

\* the points as pairs of whole numbers over the denominator den
Whole(points, den) ==
    Tuple([k \in 1..Len(points) |->
        << points[k].x.n * (den \div points[k].x.d), points[k].y.n * (den \div points[k].y.d) >>])

\* the sums of the normal equations (A^T A) result = A^T b for the rows
\* A[i] = (x, y, 1) and b[i] = z = x^2 + y^2, of the pairs w of whole
\* numbers over the denominator den
Sums(w, den) ==
    [xx |-> Rat(SumOver(LAMBDA k : w[k][1] * w[k][1], 1, Len(w)), den * den),
     xy |-> Rat(SumOver(LAMBDA k : w[k][1] * w[k][2], 1, Len(w)), den * den),
     yy |-> Rat(SumOver(LAMBDA k : w[k][2] * w[k][2], 1, Len(w)), den * den),
     x  |-> Rat(SumOver(LAMBDA k : w[k][1], 1, Len(w)), den),
     y  |-> Rat(SumOver(LAMBDA k : w[k][2], 1, Len(w)), den),
     xz |-> Rat(SumOver(LAMBDA k : w[k][1] * (w[k][1] * w[k][1] + w[k][2] * w[k][2]), 1, Len(w)),
                den * den * den),
     yz |-> Rat(SumOver(LAMBDA k : w[k][2] * (w[k][1] * w[k][1] + w[k][2] * w[k][2]), 1, Len(w)),
                den * den * den),
     z  |-> Rat(SumOver(LAMBDA k : w[k][1] * w[k][1] + w[k][2] * w[k][2], 1, Len(w)), den * den),
     n  |-> Q(Len(w))]

\* the equations
\*   xx r1 + xy r2 + x r3 = xz,   xy r1 + yy r2 + y r3 = yz,   x r1 + y r2 + n r3 = z
\* solved by elimination: f2 and f3 are the multiples of row 1 taken from
\* rows 2 and 3, g3 the multiple of row 2 taken from row 3
Solve(S) ==
    Let(<< RDiv(S.xy, S.xx), RDiv(S.x, S.xx) >>, LAMBDA f :
    Let([m22 |-> RSub(S.yy, RMul(f[1], S.xy)), m23 |-> RSub(S.y, RMul(f[1], S.x)),
         v2  |-> RSub(S.yz, RMul(f[1], S.xz)),
         m33 |-> RSub(S.n, RMul(f[2], S.x)),   v3  |-> RSub(S.z, RMul(f[2], S.xz))], LAMBDA m :
    Let(RDiv(m.m23, m.m22), LAMBDA g3 :
    Let(RDiv(RSub(m.v3, RMul(g3, m.v2)), RSub(m.m33, RMul(g3, m.m23))), LAMBDA r3 :
    Let(RDiv(RSub(m.v2, RMul(m.m23, r3)), m.m22), LAMBDA r2 :
        << RDiv(RSub(RSub(S.xz, RMul(S.xy, r2)), RMul(S.x, r3)), S.xx), r2, r3 >>)))))

\* np.linalg.lstsq(A, b) for the rows A[i] = (x, y, 1) and b[i] = x^2 + y^2
\* of points that do not all lie on one line: the solution of the normal
\* equations.  The sums are taken over the common denominator of the coordinates.
lstsq(points) ==
    Let(CommonDen(points, 1, Len(points)), LAMBDA den :
    Let(Sums(Whole(points, den), den), LAMBDA S : Solve(S)))

\* math.sqrt(dx * dx + dy * dy)
Dist(dx, dy) == RSqrt(RAdd(RMul(dx, dx), RMul(dy, dy)))

\* (dist - radius) ** 2 for a point
SquaredError(p, center, radius) ==
    RSquare(RSub(Dist(RSub(p.x, center[1]), RSub(p.y, center[2])), radius))

\* _fit_circle(points): None, or the record of (center, radius, error)
_fit_circle(points) ==
    IF Len(points) < 3 THEN None
    ELSE Let(lstsq(points), LAMBDA solution :
         Let(<< RDiv(solution[1], Q(2)), RDiv(solution[2], Q(2)) >>, LAMBDA center :
         Let(RAdd(solution[3], RAdd(RSquare(center[1]), RSquare(center[2]))), LAMBDA r_squared :
             IF ~RLess(Q(0), r_squared) THEN None
             ELSE Let(RSqrt(r_squared), LAMBDA radius :
                  Some([center |-> center, radius |-> radius,
                        error  |-> RSqrt(RDiv(RSumOver(LAMBDA k : SquaredError(points[k], center, radius),
                                                       1, Len(points)),
                                              Q(Len(points))))])))))

\* the angles math.atan2(p.y - center[1], p.x - center[0]) of the points
PointAngles(points, center) ==
    [k \in 1..Len(points) |->
        RAtan2(RSub(points[k].y, center[2]), RSub(points[k].x, center[1]))]

\* a gap of the coverage: counted when below pi
GapBelowPi(gap) == IF gap < Pi THEN gap ELSE 0

\* the total_coverage of _is_full_circle and _is_full_ellipse for the angles
\* of the points: the gaps below pi between neighbours of the sorted angles,
\* and the gap from the last back to the first if below pi
total_coverage(unsorted) ==
    Let(Sorted(unsorted), LAMBDA angles :
        SumOver(LAMBDA k : GapBelowPi(angles[k + 1] - angles[k]), 1, Len(angles) - 1)
        + GapBelowPi(TwoPi - (Last(angles) - angles[1])))

\* _is_full_circle answering True for any points
_is_full_circle_always(points, center, radius) == TRUE

\* _is_full_circle(points, center, radius)
_is_full_circle(points, center, radius) ==
    IF Len(points) < 8 THEN FALSE
    ELSE 10 * total_coverage(PointAngles(points, center)) > 9 * TwoPi

\* (p1.x - cx) * (p2.y - cy) - (p2.x - cx) * (p1.y - cy)
Cross(p1, p2, center) ==
    RSub(RMul(RSub(p1.x, center[1]), RSub(p2.y, center[2])),
         RMul(RSub(p2.x, center[1]), RSub(p1.y, center[2])))

\* the signed_area of _is_ccw
signed_area(points, center) ==
    RSumOver(LAMBDA k : Cross(points[k], points[k + 1], center), 1, Len(points) - 1)

\* _is_ccw answering True for any points
_is_ccw_always(points, center) == TRUE

\* _is_ccw(points, center)
_is_ccw(points, center) ==
    IF Len(points) < 3 THEN TRUE ELSE RLess(Q(0), signed_area(points, center))

\* "if angle < 0: angle += 360", in thousandths of a degree
To360(angle) == IF angle < 0 THEN angle + 360000 ELSE angle

\* one angle of _calculate_arc_angles: the degrees of the bearing of p from
\* the center, brought into 0-360
ArcAngle(center, p) ==
    To360(Degrees(RAtan2(RSub(p.y, center[2]), RSub(p.x, center[1]))))

\* _calculate_arc_angles(center, start, end)
_calculate_arc_angles(center, start, end) == << ArcAngle(center, start), ArcAngle(center, end) >>

\* the default tolerance = 0.02 of detect_circles_and_arcs
circle_tolerance == Rat(2, 100)

\* any radius above 0 taken
min_radius_zero == Q(0)

\* the least radius detect_circles_and_arcs takes: radius > 0.5
min_radius == Rat(5, 10)

\* Circle(center, radius, color, width, layer, linetype) of a polyline
Circle(center, radius, polyline) ==
    [center |-> Point(center[1], center[2]), radius |-> radius,
     color |-> polyline.color, width |-> polyline.width,
     layer |-> polyline.layer, linetype |-> polyline.linetype]

\* an Arc built without layer= and linetype=: they take the defaults of the dataclass
ArcOfDefaults(center, radius, start_angle, end_angle, polyline) ==
    [center |-> Point(center[1], center[2]), radius |-> radius,
     start_angle |-> start_angle, end_angle |-> end_angle,
     color |-> polyline.color, width |-> polyline.width,
     layer |-> "0", linetype |-> "Continuous"]

\* Arc(center, radius, start_angle, end_angle, color, width, layer, linetype)
Arc(center, radius, start_angle, end_angle, polyline) ==
    [center |-> Point(center[1], center[2]), radius |-> radius,
     start_angle |-> start_angle, end_angle |-> end_angle,
     color |-> polyline.color, width |-> polyline.width,
     layer |-> polyline.layer, linetype |-> polyline.linetype]

\* the test "radius > 0.5 and error < tolerance * radius" of a fit
GoodCircleFit(fit) ==
    RLess(min_radius, fit.radius) /\ RLess(fit.error, RMul(circle_tolerance, fit.radius))

\* the Arc of an accepted polyline: the angles of its first and last point,
\* swapped when the points do not run counter-clockwise
ArcOf(polyline, center, radius, angles) ==
    IF ~_is_ccw(polyline.points, center)
    THEN Arc(center, radius, angles[2], angles[1], polyline)
    ELSE Arc(center, radius, angles[1], angles[2], polyline)

\* the body of the loop of detect_circles_and_arcs for a polyline of 6 points
\* or more whose fit is result: d is the data with new_polylines in the
\* place of its polylines
CircleOrArcOfFit(polyline, d, result) ==
    IF IsNone(result) THEN [d EXCEPT !.polylines = Append(@, polyline)]
    ELSE IF ~GoodCircleFit(Val(result)) THEN [d EXCEPT !.polylines = Append(@, polyline)]
    ELSE IF _is_full_circle(polyline.points, Val(result).center, Val(result).radius)
            /\ polyline.closed
    THEN [d EXCEPT !.circles = Append(@, Circle(Val(result).center, Val(result).radius, polyline))]
    ELSE [d EXCEPT !.arcs = Append(@,
            ArcOf(polyline, Val(result).center, Val(result).radius,
                  _calculate_arc_angles(Val(result).center, polyline.points[1],
                                        Last(polyline.points))))]

\* the body of the loop of detect_circles_and_arcs for one polyline
FitCircleOrArc(polyline, d) ==
    IF Len(polyline.points) < 6 THEN [d EXCEPT !.polylines = Append(@, polyline)]
    ELSE Let(_fit_circle(polyline.points), LAMBDA result : CircleOrArcOfFit(polyline, d, result))

RECURSIVE CircleLoop(_, _, _)
\* the loop "for polyline in data.polylines" of detect_circles_and_arcs, from
\* the k-th polyline on
CircleLoop(polylines, k, d) ==
    IF k > Len(polylines) THEN d
    ELSE Let(FitCircleOrArc(polylines[k], d), LAMBDA next : CircleLoop(polylines, k + 1, next))

\* detect_circles_and_arcs without "new_polylines = []": the loop appends to
\* the polylines of the data
detect_circles_and_arcs_appending(d) == CircleLoop(d.polylines, 1, d)

\* detect_circles_and_arcs(data): the data after the call
detect_circles_and_arcs(d) == CircleLoop(d.polylines, 1, [d EXCEPT !.polylines = << >>])

\* ------------------------------------------------------- the ellipse fitter

\* x / 2 rounded toward 0
Half(x) == IF x < 0 THEN 0 - ((0 - x) \div 2) ELSE x \div 2

\* cos(x) for 0 <= x <= pi / 4 in parts of a radian, in ten-thousandths, by
\* its power series; x2 is x^2 in ten-thousandths
CosSeries(x2) ==
    10000 - x2 \div 2 + ((x2 * x2) \div 10000) \div 24
    - ((((x2 * x2) \div 10000) * x2) \div 10000) \div 720

CosSmall(x) == CosSeries(((x \div 100) * (x \div 100)) \div 10000)

\* sin(x) likewise; x1 is x in ten-thousandths
SinSeries(x1, x2) ==
    x1 - ((x2 * x1) \div 10000) \div 6
    + ((((x2 * x1) \div 10000) * x2) \div 10000) \div 120
    - ((((((x2 * x1) \div 10000) * x2) \div 10000) * x2) \div 10000) \div 5040

SinSmall(x) == SinSeries(x \div 100, ((x \div 100) * (x \div 100)) \div 10000)

\* cos and sin for 0 <= x <= pi / 2, in ten-thousandths
CosQuarter(x) == IF 2 * x > HalfPi THEN SinSmall(HalfPi - x) ELSE CosSmall(x)

SinQuarter(x) == IF 2 * x > HalfPi THEN CosSmall(HalfPi - x) ELSE SinSmall(x)

\* cos for 0 <= a <= pi and sin for -pi <= a <= pi, in ten-thousandths
CosHalfTurn(a) == IF a > HalfPi THEN 0 - CosQuarter(Pi - a) ELSE CosQuarter(a)

SinUpper(a) == IF a > HalfPi THEN SinQuarter(Pi - a) ELSE SinQuarter(a)

SinHalfTurn(a) == IF a < 0 THEN 0 - SinUpper(0 - a) ELSE SinUpper(a)

\* cos and sin for -2 pi <= x <= 2 pi, in ten-thousandths; exact at the
\* multiples of pi / 2
CosParts(x) == CosHalfTurn(IF Abs(x) > Pi THEN TwoPi - Abs(x) ELSE Abs(x))

SinParts(x) ==
    IF x > Pi THEN SinHalfTurn(x - TwoPi)
    ELSE IF x < 0 - Pi THEN SinHalfTurn(x + TwoPi)
    ELSE SinHalfTurn(x)

\* a number of ten-thousandths as a rational of thousandths, rounded to the nearest
Thousandths(v) == IF v < 0 THEN Rat(0 - ((5 - v) \div 10), 1000) ELSE Rat((v + 5) \div 10, 1000)

\* math.cos(x) and math.sin(x), rounded to a thousandth
Cos(x) == Thousandths(CosParts(x))

Sin(x) == Thousandths(SinParts(x))

\* a rational cut to k decimals, toward 0: the precision the deviations of
\* the points from the fitted ellipse are kept to
Trunc(r, k) ==
    IF r.n < 0 THEN Rat(0 - ScaleDiv(0 - r.n, r.d, k), 10^k)
    ELSE Rat(ScaleDiv(r.n, r.d, k), 10^k)

\* math.sqrt(x * x + y * y) of a vector whose components are kept to hundredths
Hypot(v) == Dist(Trunc(v[1], 2), Trunc(v[2], 2))

\* the value a x^2 + b xy + c y^2 + d x + e y + f of a conic at a point
ConicAt(k, x, y) ==
    RAdd(RAdd(RAdd(RMul(Q(k[1]), RMul(x, x)), RMul(Q(k[2]), RMul(x, y))),
              RAdd(RMul(Q(k[3]), RMul(y, y)), RMul(Q(k[4]), x))),
         RAdd(RMul(Q(k[5]), y), Q(k[6])))

\* the conics, among the given ones, through all the points
ConicsThrough(points, conics) ==
    {k \in conics : \A j \in 1..Len(points) : ConicAt(k, points[j].x, points[j].y) = Q(0)}

\* a value below 1e-10 of the length of the eigenvector: the eigenvector has
\* length 1, and the whole coefficients k stand for k / |k|, where |k| is
\* no less than the greatest coefficient
Max6(k) ==
    Max2(Max2(Max2(Abs(k[1]), Abs(k[2])), Max2(Abs(k[3]), Abs(k[4]))),
         Max2(Abs(k[5]), Abs(k[6])))

Negligible(v, k) ==
    v.n = 0 \/ (v.d \div Abs(v.n)) \div 100000 > 100000 \div Max6(k)

\* abs(v) < 1e-10 for a rational: 1 / abs(v) above 10^10
Below1e10(v) == v.n = 0 \/ (v.d \div Abs(v.n)) \div 100000 >= 100000

\* px = dx * cos_t + dy * sin_t and py = -dx * sin_t + dy * cos_t
FrameX(dx, dy, cos_t, sin_t) == RAdd(RMul(dx, cos_t), RMul(dy, sin_t))

FrameY(dx, dy, cos_t, sin_t) == RAdd(RNeg(RMul(dx, sin_t)), RMul(dy, cos_t))

\* errors[i] ** 2 of _fit_ellipse for the point (px, py) of the frame:
\* dist = abs((px / semi_major) ** 2 + (py / semi_minor) ** 2 - 1) and the
\* error is dist * min(semi_major, semi_minor)
SquaredDeviation(px, py, semi_major, semi_minor) ==
    RSquare(Trunc(RMul(Trunc(RAbs(RSub(RAdd(RSquare(Trunc(RDiv(px, semi_major), 3)),
                                            RSquare(Trunc(RDiv(py, semi_minor), 3))),
                                       Q(1))), 3),
                       semi_minor), 2))

\* the fit for the squared semi-axes a_sq along the direction theta and
\* b_sq across it
EllipseOfAxes(points, center, theta, cos_t, sin_t, a_sq, b_sq) ==
    Let(<< RSqrt(IF RLess(a_sq, b_sq) THEN b_sq ELSE a_sq),
           RSqrt(IF RLess(a_sq, b_sq) THEN a_sq ELSE b_sq) >>, LAMBDA semi :
        Some([center |-> center,
              major_axis |-> IF ~RLess(a_sq, b_sq)
                             THEN << RMul(semi[1], cos_t), RMul(semi[1], sin_t) >>
                             ELSE << RMul(semi[1], sin_t), RNeg(RMul(semi[1], cos_t)) >>,
              minor_axis |-> IF ~RLess(a_sq, b_sq)
                             THEN << RNeg(RMul(semi[2], sin_t)), RMul(semi[2], cos_t) >>
                             ELSE << RMul(semi[2], cos_t), RMul(semi[2], sin_t) >>,
              rotation |-> theta,
              error |-> RSqrt(RDiv(
                  RSumOver(LAMBDA k :
                      SquaredDeviation(
                          FrameX(RSub(points[k].x, center[1]), RSub(points[k].y, center[2]),
                                 cos_t, sin_t),
                          FrameY(RSub(points[k].x, center[1]), RSub(points[k].y, center[2]),
                                 cos_t, sin_t),
                          semi[1], semi[2]),
                      1, Len(points)),
                  Q(Len(points))))]))

\* the rotation angle of the conic
Rotation(a, b, c, coeffs) ==
    IF Negligible(RSub(a, c), coeffs)
    THEN (IF RLess(Q(0), b) THEN Half(HalfPi) ELSE 0 - Half(HalfPi))
    ELSE Half(Atan2(coeffs[2], coeffs[1] - coeffs[3]))

\* _fit_ellipse(points) from the coefficients on: coeffs is the eigenvector
\* (a, b, c, d, e, f) in whole numbers.  None, or the record of
\* (center, major_axis, minor_axis, rotation, error)
EllipseOfConic(points, coeffs) ==
    Let([a |-> Q(coeffs[1]), b |-> Q(coeffs[2]), c |-> Q(coeffs[3]),
         d |-> Q(coeffs[4]), e |-> Q(coeffs[5]), f |-> Q(coeffs[6])], LAMBDA k :
    Let(RSub(RMul(k.b, k.b), RMul(Q(4), RMul(k.a, k.c))), LAMBDA discriminant :
        IF ~RLess(discriminant, Q(0)) THEN None
        ELSE
    Let(<< RDiv(RSub(RMul(Q(2), RMul(k.c, k.d)), RMul(k.b, k.e)), discriminant),
           RDiv(RSub(RMul(Q(2), RMul(k.a, k.e)), RMul(k.b, k.d)), discriminant) >>, LAMBDA center :
    Let(Rotation(k.a, k.b, k.c, coeffs), LAMBDA theta :
    Let([cos_t |-> Cos(theta), sin_t |-> Sin(theta)], LAMBDA t :
    Let([a_prime |-> RAdd(RAdd(RMul(k.a, RSquare(t.cos_t)), RMul(k.b, RMul(t.cos_t, t.sin_t))),
                          RMul(k.c, RSquare(t.sin_t))),
         c_prime |-> RAdd(RSub(RMul(k.a, RSquare(t.sin_t)), RMul(k.b, RMul(t.cos_t, t.sin_t))),
                          RMul(k.c, RSquare(t.cos_t))),
         f_prime |-> RAdd(RAdd(RAdd(RMul(k.a, RSquare(center[1])),
                                    RMul(k.b, RMul(center[1], center[2]))),
                               RAdd(RMul(k.c, RSquare(center[2])), RMul(k.d, center[1]))),
                          RAdd(RMul(k.e, center[2]), k.f))], LAMBDA q :
        IF Negligible(q.a_prime, coeffs) \/ Negligible(q.c_prime, coeffs) THEN None
        ELSE
    Let([a_sq |-> RDiv(RNeg(q.f_prime), q.a_prime),
         b_sq |-> RDiv(RNeg(q.f_prime), q.c_prime)], LAMBDA sq :
        IF ~RLess(Q(0), sq.a_sq) \/ ~RLess(Q(0), sq.b_sq) THEN None
        ELSE EllipseOfAxes(points, center, theta, t.cos_t, t.sin_t, sq.a_sq, sq.b_sq))))))))

\* the angle of a point in the frame _is_full_ellipse and
\* _calculate_ellipse_params turn it into, with cos_t = cos(-theta) and
\* sin_t = sin(-theta)
FrameAngle(p, center, cos_t, sin_t) ==
    RAtan2(FrameY(RSub(p.x, center[1]), RSub(p.y, center[2]), cos_t, sin_t),
           FrameX(RSub(p.x, center[1]), RSub(p.y, center[2]), cos_t, sin_t))

\* _is_full_ellipse(points, center, major_axis, minor_axis)
_is_full_ellipse(points, center, major_axis, minor_axis) ==
    IF Len(points) < 10 THEN FALSE
    ELSE IF Below1e10(Hypot(major_axis)) THEN FALSE
    ELSE Let(RAtan2(major_axis[2], major_axis[1]), LAMBDA theta :
         Let([cos_t |-> Cos(0 - theta), sin_t |-> Sin(0 - theta)], LAMBDA t :
             100 * total_coverage([k \in 1..Len(points) |->
                                     FrameAngle(points[k], center, t.cos_t, t.sin_t)])
             > 85 * TwoPi))

\* "if param < 0: param += 2 * math.pi"
To2Pi(param) == IF param < 0 THEN param + TwoPi ELSE param

\* _calculate_ellipse_params(center, major_axis, minor_axis, rotation, start, end)
_calculate_ellipse_params(center, major_axis, minor_axis, rotation, start, end) ==
    Let([cos_t |-> Cos(0 - rotation), sin_t |-> Sin(0 - rotation)], LAMBDA t :
        << To2Pi(FrameAngle(start, center, t.cos_t, t.sin_t)),
           To2Pi(FrameAngle(end, center, t.cos_t, t.sin_t)) >>)

\* the default tolerance = 0.05 of detect_ellipses
ellipse_tolerance == Rat(5, 100)

\* no ratio left to the circle detector
max_ratio_one == Q(1)

\* the ratio above which detect_ellipses leaves the polyline to the circle detector
max_ratio == Rat(95, 100)

\* Ellipse(center, major_axis, ratio, start_param, end_param, color, ...)
Ellipse(fit, ratio, params, polyline) ==
    [center |-> Point(fit.center[1], fit.center[2]),
     major_axis |-> Point(fit.major_axis[1], fit.major_axis[2]),
     ratio |-> ratio, start_param |-> params[1], end_param |-> params[2],
     color |-> polyline.color, width |-> polyline.width,
     layer |-> polyline.layer, linetype |-> polyline.linetype]

\* the body of the loop of detect_ellipses for a polyline whose fit is fit,
\* with major_len and ratio computed: d is the data with new_polylines in
\* the place of its polylines
EllipseOfFit(polyline, d, fit, major_len, ratio) ==
    IF ~(RLess(Rat(5, 10), major_len) /\ RLess(fit.error, RMul(ellipse_tolerance, major_len)))
    THEN [d EXCEPT !.polylines = Append(@, polyline)]
    ELSE IF RLess(max_ratio, ratio) THEN [d EXCEPT !.polylines = Append(@, polyline)]
    ELSE IF _is_full_ellipse(polyline.points, fit.center, fit.major_axis, fit.minor_axis)
            /\ polyline.closed
    THEN [d EXCEPT !.ellipses = Append(@, Ellipse(fit, ratio, << 0, TwoPi >>, polyline))]
    ELSE [d EXCEPT !.ellipses = Append(@,
            Ellipse(fit, ratio,
                    _calculate_ellipse_params(fit.center, fit.major_axis, fit.minor_axis,
                        fit.rotation, polyline.points[1], Last(polyline.points)),
                    polyline))]

\* the body of the loop of detect_ellipses for a polyline of 8 points or
\* more whose fit is result (None or the record of _fit_ellipse)
FitEllipse(polyline, result, d) ==
    IF IsNone(result) THEN [d EXCEPT !.polylines = Append(@, polyline)]
    ELSE Let(Hypot(Val(result).major_axis), LAMBDA major_len :
         Let(RDiv(Hypot(Val(result).minor_axis), major_len), LAMBDA ratio :
             EllipseOfFit(polyline, d, Val(result), major_len, ratio)))

\* ------------------------------------------------------------------- inputs

\* the most path items one page holds
MaxItems == 3

\* page.rect.height of the page, in units
page_height == 4 * Unit

\* the scale arguments of extract_page
Scales == {1, 2}

\* the PDF point that _transform_point maps to (cx, cy) at scale 1
Pdf(cx, cy) == Point(cx, page_height - cy)

\* corners of the unit square, a point 5e-7 beside a corner, and an outside point
PtA == Pdf(0, 0)

PtA1 == Pdf(1, 0)

PtB == Pdf(Unit, 0)

PtC == Pdf(Unit, Unit)

PtD == Pdf(0, Unit)

\* the points of the Move items
MovePts == {PtA}

\* the (start, end) pairs of the two-point line items
LineSegs == {<< PtA, PtB >>, << PtB, PtC >>, << PtC, PtD >>, << PtC, PtA1 >>}

\* (control1, control2, end) of the c items, (control2, end) of the v items,
\* (control1, end) of the y items, (control, end) of the qu items
Cubics == {<< PtB, PtC, PtD >>}

CubicsV == {<< PtC, PtA >>}

CubicsY == {<< PtD, PtC >>}

Quads == {<< PtC, PtD >>}

\* fitz.Rect(x0, y0, x1, y1) of the re items: the unit square, and an empty rect
Rect(x0, y0, x1, y1) == [x0 |-> x0, y0 |-> y0, x1 |-> x1, y1 |-> y1]

Rects == {Rect(0, page_height - Unit, Unit, page_height),
          Rect(Unit, page_height - Unit, Unit, page_height)}

\* the path dictionaries of page.get_drawings(): stroked (with either closePath
\* flag), filled only (gray fill, no stroke color, no width), and stroked and
\* filled.  A fill is an RGB tuple or a gray level.
Black == << 0, 0, 0 >>

Red == << 1, 0, 0 >>

Blue == << 0, 0, 1 >>

Rgb(c) == [gray |-> FALSE, v |-> c]

Gray(g) == [gray |-> TRUE, v |-> << g >>]

PathDict(color, fill, width, closePath) ==
    [color |-> color, fill |-> fill, width |-> width, closePath |-> closePath]

Stroked(closePath) == PathDict(Some(Red), None, Some(1), closePath)

FilledOnly == PathDict(None, Some(Gray(1)), None, TRUE)

StrokedAndFilled == PathDict(Some(Red), Some(Rgb(Blue)), Some(1), FALSE)

\* the lists page.get_drawings() returns: one path of each kind, and two paths
Drawings == {<< Stroked(FALSE) >>, << Stroked(TRUE) >>, << FilledOnly >>,
             << StrokedAndFilled >>, << StrokedAndFilled, Stroked(TRUE) >>}

\* the conic with its coefficients negated
Negated(k) == << 0 - k[1], 0 - k[2], 0 - k[3], 0 - k[4], 0 - k[5], 0 - k[6] >>

\* _fit_ellipse(points): eig is what the eigen-solver yields for the points
\* and conics holds the conics it can yield
_fit_ellipse(points, eig, conics) ==
    IF Len(points) < 6 THEN None
    ELSE IF eig = "none" THEN None
    ELSE Let(ConicsThrough(points, conics), LAMBDA through :
             IF through = {} THEN None
             ELSE Let(CHOOSE c \in through : TRUE, LAMBDA k :
                      EllipseOfConic(points, IF eig = "minus" THEN Negated(k) ELSE k)))

RECURSIVE EllipseLoop(_, _, _, _, _)
\* "for polyline in data.polylines" of detect_ellipses from the k-th polyline on
EllipseLoop(polylines, k, eigs, conics, d) ==
    IF k > Len(polylines) THEN d
    ELSE Let(IF Len(polylines[k].points) < 8
             THEN [d EXCEPT !.polylines = Append(@, polylines[k])]
             ELSE Let(_fit_ellipse(polylines[k].points, eigs[k], conics), LAMBDA result :
                      FitEllipse(polylines[k], result, d)),
             LAMBDA next : EllipseLoop(polylines, k + 1, eigs, conics, next))

\* detect_ellipses(data): data.polylines = new_polylines at the end
detect_ellipses(d, eigs, conics) ==
    EllipseLoop(d.polylines, 1, eigs, conics, [d EXCEPT !.polylines = << >>])

\* ---------------------------------------------------- inputs of the fitters

\* the greatest number of pages of a document
MaxPages == 2

\* the points (x / den, y / den) of a list of pairs of whole numbers
Pts(seq, den) == [k \in 1..Len(seq) |-> Point(Rat(seq[k][1], den), Rat(seq[k][2], den))]

\* the 20 points with whole coordinates of the circle of radius 25 about (0, 0),
\* counter-clockwise from (25, 0); the first 16 sweep 270 degrees
B25 ==
    << << 25, 0 >>, << 24, 7 >>, << 20, 15 >>, << 15, 20 >>, << 7, 24 >>,
       << 0, 25 >>, << -7, 24 >>, << -15, 20 >>, << -20, 15 >>, << -24, 7 >>,
       << -25, 0 >>, << -24, -7 >>, << -20, -15 >>, << -15, -20 >>, << -7, -24 >>,
       << 0, -25 >>, << 7, -24 >>, << 15, -20 >>, << 20, -15 >>, << 24, -7 >> >>

\* the 12 points with whole coordinates of the circle of radius 5 about (0, 0)
B5 ==
    << << 5, 0 >>, << 4, 3 >>, << 3, 4 >>, << 0, 5 >>, << -3, 4 >>, << -4, 3 >>,
       << -5, 0 >>, << -4, -3 >>, << -3, -4 >>, << 0, -5 >>, << 3, -4 >>, << 4, -3 >> >>

\* 8 points, in fifths, of the circle of radius sqrt(5) / 5 = 0.447 about (0, 0)
B04 ==
    << << 2, 1 >>, << 1, 2 >>, << -1, 2 >>, << -2, 1 >>,
       << -2, -1 >>, << -1, -2 >>, << 1, -2 >>, << 2, -1 >> >>

\* 6 points of two straight runs: no circle fits them within the tolerance
Bent == << << 0, 0 >>, << 1, 0 >>, << 2, 0 >>, << 3, 0 >>, << 4, 0 >>, << 5, 1 >> >>

\* 3 collinear points
Collinear == << << 0, 0 >>, << 1, 1 >>, << 2, 2 >> >>

Off(seq, dx, dy) == [k \in 1..Len(seq) |-> << seq[k][1] + dx, seq[k][2] + dy >>]

Rev(seq) == [k \in 1..Len(seq) |-> seq[Len(seq) + 1 - k]]

\* the points from the k+1-th on, then the first k
FromPoint(seq, k) == [i \in 1..Len(seq) |-> seq[((i + k - 1) % Len(seq)) + 1]]

\* 12 points of the ellipse x^2 / A^2 + y^2 / B^2 = 1, counter-clockwise from (A, 0)
OnEllipse(A, B) == Pts([k \in 1..12 |-> << B5[k][1] * A, B5[k][2] * B >>], 5)

\* the points turned counter-clockwise by the angle of cosine 4/5 and sine 3/5
Turned(points) ==
    [i \in 1..Len(points) |->
        Point(RSub(RMul(Rat(4, 5), points[i].x), RMul(Rat(3, 5), points[i].y)),
              RAdd(RMul(Rat(3, 5), points[i].x), RMul(Rat(4, 5), points[i].y)))]

\* Polyline(points, closed, color, width): layer "0", linetype "Continuous"
Polyline(points, closed, color) ==
    [points |-> points, closed |-> closed, color |-> color, width |-> 1,
     layer |-> "0", linetype |-> "Continuous"]

Arc270(closed)  == Polyline(Pts(SubSeq(B25, 1, 16), 1), closed, Red)

Arc270Clockwise == Polyline(Pts(Rev(SubSeq(B25, 1, 16)), 1), FALSE, Blue)

Full25(closed)  == Polyline(Pts(B25, 1), closed, Black)

Semi            == Polyline(Pts(SubSeq(B25, 1, 11), 1), FALSE, Red)

\* a polyline with a width, a layer and a linetype of its own
Restyled(polyline, width, layer, linetype) ==
    [polyline EXCEPT !.width = width, !.layer = layer, !.linetype = linetype]

Full5           == Restyled(Polyline(Pts(Off(B5, 6, 5), 1), TRUE, Blue), 2, "pipes", "Dashed")

\* the closed hexagon on six points of B5, its first point repeated at the end
Hex5            == << B5[1], B5[3], B5[5], B5[7], B5[9], B5[11], B5[1] >>

Hexagon         == Restyled(Polyline(Pts(Off(Hex5, 6, 5), 1), TRUE, Blue), 3, "walls", "Dotted")

Seven           == Polyline(Pts(SubSeq(Off(B5, 6, 5), 1, 7), 1), TRUE, Red)

Five            == Polyline(Pts(SubSeq(B5, 1, 5), 1), FALSE, Black)

Three           == Polyline(Pts(Collinear, 1), FALSE, Blue)

Speck           == Polyline(Pts(B04, 5), TRUE, Black)

BentLine        == Polyline(Pts(Bent, 1), FALSE, Red)

\* ellipses of ratio 0.5 with the major axis along x, along y, and turned;
\* the open ones start at the tip of the major axis
Oval(closed)    == Polyline(OnEllipse(10, 5), closed, Red)

OvalUp          == Restyled(Polyline(FromPoint(OnEllipse(5, 10), 3), FALSE, Blue),
                            4, "trim", "Center")

OvalTurned      == Polyline(Turned(OnEllipse(10, 5)), FALSE, Black)

\* ellipses of ratio 19/20 = 0.95 and 39/40 = 0.975
Oval95          == Polyline(OnEllipse(20, 19), TRUE, Red)

Oval975         == Polyline(OnEllipse(40, 39), TRUE, Blue)

\* the polylines extract_page leaves in data.polylines, one list per page
Pages ==
    { << >>,
      << Arc270(FALSE) >>, << Arc270(TRUE) >>, << Arc270Clockwise >>,
      << Full25(TRUE), Three >>, << Full25(FALSE) >>,
      << BentLine, Seven, Five >>, << Semi, Speck >>, << Full5 >>, << Full5, Hexagon, OvalUp >>,
      << Oval(TRUE) >>, << Oval(FALSE), Five >>, << OvalUp >>, << OvalTurned >>,
      << Oval95 >>, << Oval975 >> }

\* the conic b2 x^2 + a2 y^2 = a2 b2 of the ellipse of semi-axes A along x and B along y
ConicOf(A, B) == << B * B, 0, A * A, 0, 0, 0 - A * A * B * B >>

\* the conics (a, b, c, d, e, f) through the points of the pages, with a > 0
Conics ==
    { << 1, 0, 1, 0, 0, -625 >>, << 1, 0, 1, -12, -10, 36 >>, << 5, 0, 5, 0, 0, -1 >>,
      ConicOf(10, 5), ConicOf(5, 10), << 52, -72, 73, 0, 0, -2500 >>,
      ConicOf(20, 19), ConicOf(40, 39) }

\* what the eigen-solver of _fit_ellipse yields: no eigenvector, or the conic
\* through the points with either sign
EigOutcomes == {"none", "plus", "minus"}

\* the page modes of convert
PageModes == {"single", "separate", "merge"}

\* ------------------------------------------------------------------- state

VARIABLES
    pc,             \* "start": before extract_page; "paths": at "for path in paths";
                    \* "items": at "for item in items"
    scale,          \* self.scale
    data,           \* the ExtractedData of the page
    paths,          \* the paths of page.get_drawings() the loop has not taken yet
    st,             \* the style locals of the path: color, fill_color, width, linetype, closePath
    item,           \* the item the loop is at
    idx,            \* the number of items of the path processed so far
    nitems,         \* the number of items of the page processed so far
    all_subpaths, current_point, path_points, path_start, has_curves,
    cpc,            \* where convert is: "idle" before the call; "page" at the head of
                    \* "for i, page_num in enumerate(pages_to_process)"; "circles" and
                    \* "ellipses" before the two fitters; "append" before
                    \* extracted_pages.append; "done" once convert has returned
    detect_geometry, detect_ellipse, page_mode,     \* the arguments of convert
    output_format, keep_dxf,
    pages_to_process,
    page_i,         \* i of the page loop: the number of pages it has finished
    page_data,      \* the ExtractedData of the page the loop is at
    applied,        \* the fitters applied to page_data so far, in their order
    extracted_pages,
    result,         \* the ConversionResult convert returned, or None
    evals,          \* the last evaluations of the helpers on drawn inputs: for each
                    \* the helper, its arguments and what it returned
    calls           \* the two invocations of extract_page on one extractor that
                    \* run interleaved: where each is, its arguments and its output

cvars == << cpc, detect_geometry, detect_ellipse, page_mode, output_format, keep_dxf,
            pages_to_process, page_i,
            page_data, applied, extracted_pages, result >>

vars == << pc, scale, data, paths, st, item, idx, nitems,
           all_subpaths, current_point, path_points, path_start, has_curves, cvars, calls, evals >>

locals == << all_subpaths, current_point, path_points, path_start, has_curves >>

\* the variables of extract_page and _extract_drawings
evars == << pc, scale, data, paths, st, item, idx, nitems, locals >>

\* the two callers of extract_page
Callers == {1, 2}

\* an invocation that has not begun: pc is "idle" before the call, "enter"
\* before "self.scale = scale", "points" while _extract_drawings transforms
\* the points of the page, "done" after the return
NoCall == [pc |-> "idle", scale |-> 1, points |-> << >>, out |-> << >>]

\* the collections of ExtractedData the fitters read and write
PageData(polylines) ==
    [polylines |-> polylines, circles |-> << >>, arcs |-> << >>, ellipses |-> << >>]

\* ExtractedData(): the collections the path loop fills
ExtractedData == [lines |-> << >>, rectangles |-> << >>, polylines |-> << >>, hatches |-> << >>]

NoItem == [cmd |-> "none", pts |-> << >>]

NoStyle == [color |-> Black, fill_color |-> None, width |-> 1, linetype |-> "Continuous",
            closePath |-> FALSE]

Init ==
    /\ pc = "start"
    /\ scale = 1
    /\ data = ExtractedData
    /\ paths = << >>
    /\ st = NoStyle
    /\ item = NoItem
    /\ idx = 0
    /\ nitems = 0
    /\ all_subpaths = << >>
    /\ current_point = None
    /\ path_points = << >>
    /\ path_start = None
    /\ has_curves = FALSE
    /\ cpc = "idle"
    /\ detect_geometry = TRUE
    /\ detect_ellipse = TRUE
    /\ page_mode = "single"
    /\ output_format = "dwg"
    /\ keep_dxf = FALSE
    /\ pages_to_process = << >>
    /\ page_i = 0
    /\ page_data = PageData(<< >>)
    /\ applied = << >>
    /\ extracted_pages = << >>
    /\ result = None
    /\ calls = [t \in Callers |-> NoCall]
    /\ evals = << >>

\* _transform_y(y, page_height)
_transform_y(y) == (page_height - y) * scale

\* _transform_point(x, y, page_height)
_transform_point(p) == Point(p.x * scale, _transform_y(p.y))

\* extract_page(page_num, scale) up to the call of _extract_drawings
extract_page(s, drawings) ==
    /\ pc = "start"
    /\ pc' = "paths"
    /\ scale' = s
    /\ data' = ExtractedData
    /\ paths' = drawings
    /\ UNCHANGED << st, item, idx, nitems, locals, cvars, calls, evals >>

\* the locals color, fill_color, width, linetype, closePath of a path
PathStyle(path) ==
    [color      |-> IF IsNone(path.color) THEN Black ELSE Val(path.color),
     fill_color |-> IF IsNone(path.fill) THEN None
                    ELSE IF Val(path.fill).gray
                         THEN LET g == Val(path.fill).v[1] IN Some(<< g, g, g >>)
                         ELSE Some(Val(path.fill).v),
     width      |-> (IF IsNone(path.width) \/ Val(path.width) = 0 THEN 1 ELSE Val(path.width)) * scale,
     linetype   |-> "Continuous",
     closePath  |-> path.closePath]

\* "for path in paths": the head of the loop body, up to "for item in items"
NextPath ==
    /\ pc = "paths"
    /\ paths # << >>
    /\ pc' = "items"
    /\ paths' = Tail(paths)
    /\ st' = PathStyle(Head(paths))
    /\ idx' = 0
    /\ all_subpaths' = << >>
    /\ current_point' = None
    /\ path_points' = << >>
    /\ path_start' = None
    /\ has_curves' = FALSE
    /\ UNCHANGED << scale, data, item, nitems, cvars, calls, evals >>

\* AppendSubpath keeping a subpath of a single point
AppendSubpathOfOne(subs, points, closed, curves) ==
    IF Len(points) > 0
    THEN Append(subs, [points |-> points, closed |-> closed, has_curves |-> curves])
    ELSE subs

\* "if len(path_points) > 1: all_subpaths.append({...})"
AppendSubpath(subs, points, closed, curves) ==
    IF Len(points) > 1
    THEN Append(subs, [points |-> points, closed |-> closed, has_curves |-> curves])
    ELSE subs

\* the loop takes the next item of the path
TakeItem(it) ==
    /\ pc = "items"
    /\ nitems < MaxItems
    /\ item' = it
    /\ idx' = idx + 1
    /\ nitems' = nitems + 1
    /\ UNCHANGED << pc, scale, paths, st, cvars, calls, evals >>

\* MoveTo leaving has_curves as it is
MoveToKeepingCurves(pt) ==
    /\ TakeItem([cmd |-> "m", pts |-> << pt >>])
    /\ all_subpaths' = AppendSubpath(all_subpaths, path_points, FALSE, has_curves)
    /\ current_point' = Some(_transform_point(pt))
    /\ path_start' = Some(_transform_point(pt))
    /\ path_points' = << _transform_point(pt) >>
    /\ UNCHANGED << data, has_curves >>

\* cmd == "m"
MoveTo(pt) ==
    /\ TakeItem([cmd |-> "m", pts |-> << pt >>])
    /\ all_subpaths' = AppendSubpath(all_subpaths, path_points, FALSE, has_curves)
    /\ has_curves' = FALSE
    /\ current_point' = Some(_transform_point(pt))
    /\ path_start' = Some(_transform_point(pt))
    /\ path_points' = << _transform_point(pt) >>
    /\ UNCHANGED data

\* the three branches of the two-point line item on the in-progress subpath
LineStartsFresh == IsNone(current_point) \/ Len(path_points) = 0

\* LineIsDiscontinuous comparing the coordinates exactly, without the tolerance
LineIsDiscontinuousExact(start_point) == Val(current_point) # start_point

LineIsDiscontinuous(start_point) == ~PointEq(Val(current_point), start_point)

\* cmd == "l", len(item) >= 3: ('l', start_point, end_point).  Every line item
\* of the inputs has its two points; the branch for an item with a single
\* point is not entered.
LineTo(a, b) ==
    LET start_point == _transform_point(a)
        end_point   == _transform_point(b)
    IN  /\ TakeItem([cmd |-> "l", pts |-> << a, b >>])
        /\ IF LineStartsFresh
           THEN /\ path_points' = << start_point, end_point >>
                /\ path_start' = Some(start_point)
                /\ UNCHANGED << all_subpaths, has_curves >>
           ELSE IF LineIsDiscontinuous(start_point)
           THEN /\ all_subpaths' = AppendSubpath(all_subpaths, path_points, FALSE, has_curves)
                /\ path_points' = << start_point, end_point >>
                /\ path_start' = Some(start_point)
                /\ has_curves' = FALSE
           ELSE /\ path_points' = Append(path_points, end_point)
                /\ UNCHANGED << all_subpaths, path_start, has_curves >>
        /\ current_point' = Some(end_point)
        /\ UNCHANGED data

\* bezier_points[1:]
Rest(points) == SubSeq(points, 2, Len(points))

\* cmd == "c": the points are appended only with a current point; has_curves
\* and current_point are assigned in either case
CubicTo(c1, c2, e) ==
    LET ctrl1 == _transform_point(c1)
        ctrl2 == _transform_point(c2)
        end   == _transform_point(e)
    IN  /\ TakeItem([cmd |-> "c", pts |-> << c1, c2, e >>])
        /\ path_points' =
              IF ~IsNone(current_point)
              THEN path_points \o Rest(_bezier_to_points(Val(current_point), ctrl1, ctrl2, end, 16))
              ELSE path_points
        /\ has_curves' = TRUE
        /\ current_point' = Some(end)
        /\ UNCHANGED << data, all_subpaths, path_start >>

\* cmd == "v": control point 1 = current point
CubicToV(c2, e) ==
    LET ctrl2 == _transform_point(c2)
        end   == _transform_point(e)
    IN  /\ TakeItem([cmd |-> "v", pts |-> << c2, e >>])
        /\ IF ~IsNone(current_point)
           THEN /\ path_points' = path_points \o
                      Rest(_bezier_to_points(Val(current_point), Val(current_point), ctrl2, end, 16))
                /\ has_curves' = TRUE
                /\ current_point' = Some(end)
           ELSE UNCHANGED << path_points, has_curves, current_point >>
        /\ UNCHANGED << data, all_subpaths, path_start >>

\* cmd == "y": control point 2 = end point
CubicToY(c1, e) ==
    LET ctrl1 == _transform_point(c1)
        end   == _transform_point(e)
    IN  /\ TakeItem([cmd |-> "y", pts |-> << c1, e >>])
        /\ IF ~IsNone(current_point)
           THEN /\ path_points' = path_points \o
                      Rest(_bezier_to_points(Val(current_point), ctrl1, end, end, 16))
                /\ has_curves' = TRUE
                /\ current_point' = Some(end)
           ELSE UNCHANGED << path_points, has_curves, current_point >>
        /\ UNCHANGED << data, all_subpaths, path_start >>

\* cmd == "qu": quadratic bezier
QuadTo(c, e) ==
    LET ctrl == _transform_point(c)
        end  == _transform_point(e)
    IN  /\ TakeItem([cmd |-> "qu", pts |-> << c, e >>])
        /\ IF ~IsNone(current_point)
           THEN /\ path_points' = path_points \o
                      Rest(_quad_bezier_to_points(Val(current_point), ctrl, end, 12))
                /\ has_curves' = TRUE
                /\ current_point' = Some(end)
           ELSE UNCHANGED << path_points, has_curves, current_point >>
        /\ UNCHANGED << data, all_subpaths, path_start >>

\* the Rectangle of a re item
RectEntity(rect) ==
    [corner     |-> _transform_point(Point(rect.x0, rect.y1)),
     width      |-> (rect.x1 - rect.x0) * scale,
     height     |-> (rect.y1 - rect.y0) * scale,
     color      |-> st.color,
     line_width |-> st.width,
     linetype   |-> st.linetype,
     fill_color |-> st.fill_color]

\* rect_points of a filled re item: the four corners and the first again
RectPoints(r) ==
    << r.corner,
       Point(r.corner.x + r.width, r.corner.y),
       Point(r.corner.x + r.width, r.corner.y + r.height),
       Point(r.corner.x, r.corner.y + r.height),
       r.corner >>

\* cmd == "re": a Rectangle, and a Hatch when the path is filled
RectTo(rect) ==
    LET r        == RectEntity(rect)
        withRect == [data EXCEPT !.rectangles = Append(@, r)]
    IN  /\ TakeItem([cmd |-> "re", pts |-> << Point(rect.x0, rect.y0), Point(rect.x1, rect.y1) >>])
        /\ data' = IF ~IsNone(st.fill_color)
                   THEN [withRect EXCEPT !.hatches =
                            Append(@, Hatch(RectPoints(r), Val(st.fill_color)))]
                   ELSE withRect
        /\ UNCHANGED locals

\* the points a close item flushes: path_start is appended when it differs
\* from the current point
ClosedPoints ==
    IF ~IsNone(path_start) /\ ~IsNone(current_point)
       /\ ~PointEq(Val(path_start), Val(current_point))
    THEN Append(path_points, Val(path_start))
    ELSE path_points

\* cmd == "h": current_point and path_start keep their values
ClosePath ==
    /\ TakeItem([cmd |-> "h", pts |-> << >>])
    /\ all_subpaths' = AppendSubpath(all_subpaths, ClosedPoints, TRUE, has_curves)
    /\ path_points' = << >>
    /\ has_curves' = FALSE
    /\ UNCHANGED << data, current_point, path_start >>

\* is_closed = closePath or (path_start and path_points[-1] == path_start)
is_closed ==
    \/ st.closePath
    \/ /\ ~IsNone(path_start)
       /\ PointEq(path_points[Len(path_points)], Val(path_start))

\* the subpaths of the path once the items are consumed ("Save remaining path points")
FinalSubpaths ==
    IF Len(path_points) > 1
    THEN Append(all_subpaths,
                [points |-> path_points, closed |-> is_closed, has_curves |-> has_curves])
    ELSE all_subpaths

\* after "for item in items": the remaining points are saved, every subpath
\* is saved as an entity, and a filled path without stroke gets its hatches
EndPath ==
    LET saved == SaveSubpaths(FinalSubpaths, 1, st, data)
    IN  /\ pc = "items"
        /\ pc' = "paths"
        /\ all_subpaths' = FinalSubpaths
        /\ data' = IF ~IsNone(st.fill_color) /\ st.color = Black /\ st.width = 0
                   THEN HatchSubpaths(FinalSubpaths, 1, st, saved)
                   ELSE saved
        /\ UNCHANGED << scale, paths, st, item, idx, nitems,
                        current_point, path_points, path_start, has_curves, cvars, calls, evals >>

Next ==
    \/ \E s \in Scales, drawings \in Drawings : extract_page(s, drawings)
    \/ NextPath
    \/ \E pt \in MovePts : MoveTo(pt)
    \/ \E seg \in LineSegs : LineTo(seg[1], seg[2])
    \/ \E c \in Cubics : CubicTo(c[1], c[2], c[3])
    \/ \E c \in CubicsV : CubicToV(c[1], c[2])
    \/ \E c \in CubicsY : CubicToY(c[1], c[2])
    \/ \E c \in Quads : QuadTo(c[1], c[2])
    \/ \E rect \in Rects : RectTo(rect)
    \/ ClosePath
    \/ EndPath

Spec == Init /\ [][Next]_vars

\* ------------------------------------------------------------------ convert

\* ConversionResult(success, output_files, message, pages_processed): an
\* output file is its format and the list of the pages written to it
ConversionResult(success, output_files, message, pages_processed) ==
    [success |-> success, output_files |-> output_files, message |-> message,
     pages_processed |-> pages_processed]

\* [1, ..., n]
Range(n) == [k \in 1..n |-> k]

\* the formats that need the DWG converter
NeedsDwg(format) == format \in {"dwg", "both"}

\* convert(input_path, output_path, output_format, page_mode, pages,
\* detect_geometry, detect_ellipse, keep_dxf) up to the page loop, on a
\* document of page_count pages; is_file is os.path.isfile(input_path),
\* can_dwg is self.can_convert_to_dwg(); pages are numbered from 1
convert(is_file, can_dwg, page_count, pages, mode, format, keep, geometry, ellipse) ==
    /\ cpc = "idle"
    /\ detect_geometry' = geometry
    /\ detect_ellipse' = ellipse
    /\ page_mode' = mode
    /\ output_format' = format
    /\ keep_dxf' = keep
    /\ IF ~is_file
       THEN /\ cpc' = "done"
            /\ result' = Some(ConversionResult(FALSE, << >>, "Input file not found", 0))
            /\ UNCHANGED pages_to_process
       ELSE IF NeedsDwg(format) /\ ~can_dwg
       THEN /\ cpc' = "done"
            /\ result' = Some(ConversionResult(FALSE, << >>, "install instructions", 0))
            /\ UNCHANGED pages_to_process
       ELSE IF page_count = 0
       THEN /\ cpc' = "done"
            /\ result' = Some(ConversionResult(FALSE, << >>, "PDF has no pages", 0))
            /\ UNCHANGED pages_to_process
       ELSE /\ cpc' = "page"
            /\ pages_to_process' =
                  IF ~IsNone(pages)
                  THEN SelectSeq(Val(pages), LAMBDA q : 1 <= q /\ q <= page_count)
                  ELSE IF mode = "single" THEN << 1 >> ELSE Range(page_count)
            /\ UNCHANGED result
    /\ UNCHANGED << page_i, page_data, applied, extracted_pages, evars, calls, evals >>

\* "page_data = extractor.extract_page(page_num, scale)" returning the data
\* of a page with the given polylines
ExtractPage(polylines) ==
    /\ cpc = "page"
    /\ page_i < Len(pages_to_process)
    /\ cpc' = "circles"
    /\ page_data' = PageData(polylines)
    /\ applied' = << >>
    /\ UNCHANGED << detect_geometry, detect_ellipse, page_mode, output_format, keep_dxf,
                    pages_to_process, page_i,
                    extracted_pages, result, evars, calls, evals >>

\* extract_page raising on a page or on one of its paths: nothing in
\* _extract_drawings, extract_page or the page loop catches, so the
\* "except Exception" of convert returns the failure
ExtractRaises ==
    /\ cpc = "page"
    /\ page_i < Len(pages_to_process)
    /\ cpc' = "done"
    /\ result' = Some(ConversionResult(FALSE, << >>, "Conversion error", 0))
    /\ UNCHANGED << detect_geometry, detect_ellipse, page_mode, output_format, keep_dxf,
                    pages_to_process, page_i,
                    page_data, applied, extracted_pages, evars, calls, evals >>

\* "if detect_geometry: detect_circles_and_arcs(page_data)"
DetectCircles ==
    /\ cpc = "circles"
    /\ cpc' = "ellipses"
    /\ IF detect_geometry
       THEN /\ page_data' = detect_circles_and_arcs(page_data)
            /\ applied' = Append(applied, "detect_circles_and_arcs")
       ELSE UNCHANGED << page_data, applied >>
    /\ UNCHANGED << detect_geometry, detect_ellipse, page_mode, output_format, keep_dxf,
                    pages_to_process, page_i,
                    extracted_pages, result, evars, calls, evals >>

\* "if detect_ellipse: detect_ellipses(page_data)"; eigs[k] is what the
\* eigen-solver yields for the k-th polyline
DetectEllipses(eigs) ==
    /\ cpc = "ellipses"
    /\ cpc' = "append"
    /\ IF detect_ellipse
       THEN /\ page_data' = detect_ellipses(page_data, eigs, Conics)
            /\ applied' = Append(applied, "detect_ellipses")
       ELSE UNCHANGED << page_data, applied >>
    /\ UNCHANGED << detect_geometry, detect_ellipse, page_mode, output_format, keep_dxf,
                    pages_to_process, page_i,
                    extracted_pages, result, evars, calls, evals >>

\* "extracted_pages.append(page_data)"
AppendPage ==
    /\ cpc = "append"
    /\ cpc' = "page"
    /\ extracted_pages' = Append(extracted_pages, page_data)
    /\ page_i' = page_i + 1
    /\ UNCHANGED << detect_geometry, detect_ellipse, page_mode, output_format, keep_dxf,
                    pages_to_process,
                    page_data, applied, result, evars, calls, evals >>

\* an output file of a format with the pages written to it
File(format, written) == [format |-> format, pages |-> written]

\* what output_files gains for one DXF file of the given pages: the DWG made
\* of it if a DWG is wanted and its conversion succeeded, and the DXF if a
\* DXF is wanted or kept
FilesOf(written, dwg_ok) ==
    (IF NeedsDwg(output_format) /\ dwg_ok THEN << File("dwg", written) >> ELSE << >>)
        \o (IF output_format \in {"dxf", "both"} \/ keep_dxf
            THEN << File("dxf", written) >> ELSE << >>)

RECURSIVE SeparateFiles(_, _)
\* output_files of the loop "for i, page_data in enumerate(extracted_pages)"
\* from the k-th page on
SeparateFiles(k, dwg) ==
    IF k > Len(extracted_pages) THEN << >>
    ELSE FilesOf(<< pages_to_process[k] >>, dwg[k]) \o SeparateFiles(k + 1, dwg)

\* after the page loop: the DXF files are written, converted to DWG where
\* asked, and convert returns; dwg[k] tells whether the k-th call of
\* self.dwg_converter.convert succeeds
WriteOutput(dwg) ==
    /\ cpc = "page"
    /\ page_i = Len(pages_to_process)
    /\ cpc' = "done"
    /\ result' =
          IF page_mode = "merge" \/ Len(extracted_pages) = 1
          THEN IF extracted_pages = << >>
               THEN \* merge_pages_to_dxf raises ValueError("No pages to merge")
                    Some(ConversionResult(FALSE, << >>, "Conversion error", 0))
               ELSE IF NeedsDwg(output_format) /\ ~dwg[1]
               THEN Some(ConversionResult(FALSE, << >>, "DWG conversion failed",
                                          Len(extracted_pages)))
               ELSE Some(ConversionResult(TRUE, FilesOf(pages_to_process, dwg[1]),
                                          "Successfully converted", Len(extracted_pages)))
          ELSE Some(ConversionResult(TRUE, SeparateFiles(1, dwg),
                                     "Successfully converted", Len(extracted_pages)))
    /\ UNCHANGED << detect_geometry, detect_ellipse, page_mode, output_format, keep_dxf,
                    pages_to_process, page_i,
                    page_data, applied, extracted_pages, evars, calls, evals >>

\* the outcomes of the calls of self.dwg_converter.convert
DwgOutcomes == [1..MaxPages -> BOOLEAN]

ConvertNext ==
    \/ \E page_count \in 0..MaxPages, mode \in PageModes, geometry \in BOOLEAN,
          ellipse \in BOOLEAN :
            convert(TRUE, TRUE, page_count, None, mode, "dxf", FALSE, geometry, ellipse)
    \/ \E polylines \in Pages : ExtractPage(polylines)
    \/ ExtractRaises
    \/ DetectCircles
    \/ \E eigs \in [1..Len(page_data.polylines) -> EigOutcomes] : DetectEllipses(eigs)
    \/ AppendPage
    \/ \E dwg \in DwgOutcomes : WriteOutput(dwg)

ConvertSpec == Init /\ [][ConvertNext]_vars

\* ------------------------------------------------- the options of the output

\* the polylines of the pages of the documents that are converted with every
\* combination of the output options
OutputPages == {<< >>, << Five >>}

\* the pages argument: None, an empty list, lists of page numbers that are
\* all out of range, and a list with one page in range
PagesArgs == {None, Some(<< >>), Some(<< MaxPages + 1 >>), Some(<< 0, MaxPages + 1 >>),
              Some(<< 1, MaxPages + 1 >>)}

\* OutputFormat
OutputFormats == {"dxf", "dwg", "both"}

OutputNext ==
    \/ \E is_file \in BOOLEAN, can_dwg \in BOOLEAN, page_count \in 0..MaxPages,
          pages \in PagesArgs, mode \in PageModes, format \in OutputFormats,
          keep \in BOOLEAN :
            convert(is_file, can_dwg, page_count, pages, mode, format, keep, TRUE, TRUE)
    \/ \E polylines \in OutputPages : ExtractPage(polylines)
    \/ ExtractRaises
    \/ DetectCircles
    \/ \E eigs \in [1..Len(page_data.polylines) -> EigOutcomes] : DetectEllipses(eigs)
    \/ AppendPage
    \/ \E dwg \in DwgOutcomes : WriteOutput(dwg)

OutputSpec == Init /\ [][OutputNext]_vars

\* --------------------------------------------- interleaved extract_page calls

\* the points of the drawings of the pages the two callers extract
CallPoints == {<< PtB >>, << PtC, PtD >>}

\* the variables the interleaved calls leave alone
rest == << pc, data, paths, st, item, idx, nitems, locals, cvars, evals >>

\* caller t calls extract_page(page_num, s) on a page with the given points
Call(t, s, points) ==
    /\ calls[t].pc = "idle"
    /\ calls' = [calls EXCEPT ![t] = [pc |-> "enter", scale |-> s, points |-> points,
                                      out |-> << >>]]
    /\ UNCHANGED << scale, rest >>

\* "self.scale = scale" of the call of t
SetScale(t) ==
    /\ calls[t].pc = "enter"
    /\ scale' = calls[t].scale
    /\ calls' = [calls EXCEPT ![t].pc = "points"]
    /\ UNCHANGED rest

\* _extract_drawings of the call of t transforms the next point of its page
\* with _transform_point, which reads self.scale
TransformPoint(t) ==
    /\ calls[t].pc = "points"
    /\ Len(calls[t].out) < Len(calls[t].points)
    /\ calls' = [calls EXCEPT ![t].out =
                    Append(@, _transform_point(calls[t].points[Len(calls[t].out) + 1]))]
    /\ UNCHANGED << scale, rest >>

\* "return data" of the call of t
Return(t) ==
    /\ calls[t].pc = "points"
    /\ Len(calls[t].out) = Len(calls[t].points)
    /\ calls' = [calls EXCEPT ![t].pc = "done"]
    /\ UNCHANGED << scale, rest >>

InterleavedNext ==
    \/ \E t \in Callers, s \in Scales, points \in CallPoints : Call(t, s, points)
    \/ \E t \in Callers : SetScale(t)
    \/ \E t \in Callers : TransformPoint(t)
    \/ \E t \in Callers : Return(t)

InterleavedSpec == Init /\ [][InterleavedNext]_vars

\* ------------------------------------------------- the helpers on drawn inputs

\* a point given in whole drawing units
At(x, y) == Point(x * Unit, y * Unit)

\* the points that are compared and hashed: coordinates 0, 0.5e-6, 1e-6 and
\* 1.5e-6 apart from a whole number of 1e-6
HashPoints == {Point(x, y) : x \in 0..3, y \in 0..1}

\* the coordinates of HashPoints halfway between two whole numbers of 1e-6
Ties == {1, 3}

\* the start of the flattened curves
CurveStart == At(0, 0)

\* the cubic curves that are flattened, as << p1, p2, p3 >>: chords of 30, 60
\* and 120 with control polygons of growing length, and curves that end where
\* they start, or within 0.001 of it
CubicCurves ==
    {<< At(10, h), At(20, h), At(30, 0) >> : h \in {0, 5, 7, 10, 20}}
        \cup {<< At(0, h), At(30, h), At(30, 0) >> : h \in {40, 100}}
        \cup {<< At(20, h), At(40, h), At(60, 0) >> : h \in {0, 20}}
        \cup {<< At(40, h), At(80, h), At(120, 0) >> : h \in {0, 10}}
        \cup {<< At(0, h), At(h, 0), CurveStart >> : h \in {0, 4, 20, 40}}
        \cup {<< At(0, 20), At(20, 0), Point(Milli, 0) >>}

\* the quadratic curves that are flattened, as << p1, p2 >>
QuadCurves ==
    {<< At(5, h), At(10, 0) >> : h \in {0, 2, 3, 5, 10, 20}}
        \cup {<< At(h, h), CurveStart >> : h \in {0, 3, 30}}
        \cup {<< At(30, 30), Point(0, Milli) >>}

\* evals after one more evaluation: the last two flattenings of one kind of
\* curve are kept, so that they can be compared, or the last evaluation
Evaluated(e) ==
    IF evals # << >> /\ e.op # "hash" /\ evals[Len(evals)].op = e.op
    THEN << evals[Len(evals)], e >>
    ELSE << e >>

\* the variables the evaluations leave alone
kept == << pc, scale, data, paths, st, item, idx, nitems, locals, cvars, calls >>

\* a == b, hash(a) and hash(b) of two points, the coordinates in up being the
\* ones round() takes upwards
HashPair(a, b, up) ==
    /\ evals' = Evaluated([op |-> "hash", args |-> << a, b >>,
                           out |-> << PointEq(a, b), __hash__(a, up), __hash__(b, up) >>])
    /\ UNCHANGED kept

\* _bezier_to_points(p0, p1, p2, p3, segments=16), as the curve items call it
FlattenCubic(c) ==
    /\ evals' = Evaluated([op |-> "cubic", args |-> << CurveStart >> \o c,
                           out |-> _bezier_to_points(CurveStart, c[1], c[2], c[3], 16)])
    /\ UNCHANGED kept

\* _quad_bezier_to_points(p0, p1, p2, segments=12), as the "qu" items call it
FlattenQuad(c) ==
    /\ evals' = Evaluated([op |-> "quad", args |-> << CurveStart >> \o c,
                           out |-> _quad_bezier_to_points(CurveStart, c[1], c[2], 12)])
    /\ UNCHANGED kept

EvalNext ==
    \/ \E a \in HashPoints, b \in HashPoints, up \in SUBSET Ties : HashPair(a, b, up)
    \/ \E c \in CubicCurves : FlattenCubic(c)
    \/ \E c \in QuadCurves : FlattenQuad(c)

EvalSpec == Init /\ [][EvalNext]_vars

\* ---------------------------------------------------------------- properties

\* a step that processes an item with the command cmd
ItemStep(cmd) == idx' = idx + 1 /\ item'.cmd = cmd

\* the step that ends the items of a path
EndStep == pc = "items" /\ pc' = "paths"

\* the subpath record of the given points
Subpath(points, closed, curves) ==
    [points |-> points, closed |-> closed, has_curves |-> curves]

\* two points differ by 1e-6 or more in x or in y
Differ(a, b) == Abs(a.x - b.x) >= EqTol \/ Abs(a.y - b.y) >= EqTol

CurveCmds == {"c", "v", "y", "qu"}

\* C1: a line item (start, end) begins the subpath [start, end] when no
\* subpath is in progress; when its start differs from the current point by
\* 1e-6 or more it flushes the subpath in progress as open if that has >= 2
\* points, drops it otherwise, and begins [start, end]; otherwise it appends
\* end alone.  In each case the current point is end afterwards.
C1_LineTo ==
    [][ (ItemStep("l") /\ Len(item'.pts) = 2) =>
          LET start == _transform_point(item'.pts[1])
              end   == _transform_point(item'.pts[2])
          IN  /\ current_point' = << end >>
              /\ IF current_point = << >> \/ path_points = << >>
                 THEN /\ path_points' = << start, end >>
                      /\ all_subpaths' = all_subpaths
                 ELSE IF Differ(current_point[1], start)
                 THEN /\ path_points' = << start, end >>
                      /\ all_subpaths' =
                            IF Len(path_points) >= 2
                            THEN Append(all_subpaths, Subpath(path_points, FALSE, has_curves))
                            ELSE all_subpaths
                 ELSE /\ path_points' = Append(path_points, end)
                      /\ all_subpaths' = all_subpaths ]_vars

\* C1 witness: a line item has flushed a two-point subpath, and the line item
\* after it was appended to a current point that is within 1e-6 of its start
\* without being that point
C1_Witness ==
    /\ pc = "items"
    /\ item.cmd = "l"
    /\ Len(item.pts) = 2
    /\ Len(all_subpaths) = 1
    /\ ~all_subpaths[1].closed
    /\ Len(path_points) = 3
    /\ path_points[2] # _transform_point(item.pts[1])
    /\ path_points[3] = _transform_point(item.pts[2])

\* C2: a subpath that a close item flushes is closed and ends at its first point
C2_CloseEndsAtFirst ==
    [][ (ItemStep("h") /\ Len(all_subpaths') = Len(all_subpaths) + 1) =>
          LET sub == Last(all_subpaths')
          IN  sub.closed /\ PointEq(Last(sub.points), sub.points[1]) ]_vars

\* the points a move item or the start of a line item of the inputs can establish
EstablishedPts ==
    { _transform_point(pt) : pt \in MovePts \cup { seg[1] : seg \in LineSegs } }

\* C3: a curve item that directly follows a close item adds no points, and
\* every subpath of the result begins at a point that a move item or the start
\* of a line item established
C3_CloseResets ==
    [][ /\ (idx >= 1 /\ item.cmd = "h" /\ idx' = idx + 1 /\ item'.cmd \in CurveCmds) =>
              (path_points' = path_points /\ all_subpaths' = all_subpaths)
        /\ \A k \in 1..Len(all_subpaths') :
              all_subpaths'[k].points[1] \in EstablishedPts ]_vars

\* C4: a curve item met without a current point changes nothing: no point is
\* appended, has_curves keeps its value, and there is still no current point
C4_CurveWithoutPoint ==
    [][ (idx' = idx + 1 /\ item'.cmd \in CurveCmds /\ current_point = << >>) =>
          /\ path_points' = path_points
          /\ has_curves' = has_curves
          /\ current_point' = << >>
          /\ path_start' = path_start
          /\ all_subpaths' = all_subpaths ]_vars

\* C5: at the end of the items a subpath in progress with >= 2 points is
\* flushed once, closed exactly if the closePath flag is set or its last point
\* equals its first point; one with fewer points adds nothing
C5_EndFlush ==
    [][ EndStep =>
          all_subpaths' =
             IF Len(path_points) >= 2
             THEN Append(all_subpaths,
                         Subpath(path_points,
                                 st.closePath \/ PointEq(Last(path_points), path_points[1]),
                                 has_curves))
             ELSE all_subpaths ]_vars

\* C6: a move item flushes the subpath in progress as open when it has >= 2
\* points and drops it otherwise, and begins the subpath [pt] without curves,
\* with pt as the current point and as the start of the subpath
C6_MoveTo ==
    [][ ItemStep("m") =>
          LET pt == _transform_point(item'.pts[1])
          IN  /\ path_points' = << pt >>
              /\ has_curves' = FALSE
              /\ current_point' = << pt >>
              /\ path_start' = << pt >>
              /\ all_subpaths' =
                    IF Len(path_points) >= 2
                    THEN Append(all_subpaths, Subpath(path_points, FALSE, has_curves))
                    ELSE all_subpaths ]_vars

\* C6 witness: a move item has flushed a subpath holding curve points as open
\* and begun a new subpath without curves
C6_Witness ==
    /\ pc = "items"
    /\ item.cmd = "m"
    /\ idx = 3
    /\ Len(all_subpaths) = 1
    /\ ~all_subpaths[1].closed
    /\ all_subpaths[1].has_curves
    /\ path_points = << _transform_point(item.pts[1]) >>
    /\ ~has_curves

\* C7: every subpath of the result has >= 2 points, and so has every polyline
C7_AtLeastTwoPoints ==
    /\ \A k \in 1..Len(all_subpaths) : Len(all_subpaths[k].points) >= 2
    /\ \A k \in 1..Len(data.polylines) : Len(data.polylines[k].points) >= 2

\* C7 witness: a path has ended whose items left a point without a subpath
\* (a move item came last) after a subpath that became a polyline
C7_Witness ==
    /\ pc = "paths"
    /\ item.cmd = "m"
    /\ Len(path_points) = 1
    /\ Len(all_subpaths) = 1
    /\ Len(data.polylines) = 1

\* the number of values the linear scan of _is_rectangle keeps of v[1..4]:
\* v[1], and each later value that is 0.5 or more away from every value kept
Kept2(v) == Abs(v[2] - v[1]) >= tolerance

Kept3(v) == Abs(v[3] - v[1]) >= tolerance /\ (Kept2(v) => Abs(v[3] - v[2]) >= tolerance)

Kept4(v) ==
    /\ Abs(v[4] - v[1]) >= tolerance
    /\ Kept2(v) => Abs(v[4] - v[2]) >= tolerance
    /\ Kept3(v) => Abs(v[4] - v[3]) >= tolerance

DistinctOf4(v) ==
    1 + (IF Kept2(v) THEN 1 ELSE 0) + (IF Kept3(v) THEN 1 ELSE 0) + (IF Kept4(v) THEN 1 ELSE 0)

\* the entity the rules of the classifier give a finished subpath
KindOf(sub) ==
    IF Len(sub.points) = 2 THEN "line"
    ELSE IF /\ Len(sub.points) >= 4
            /\ sub.closed
            /\ DistinctOf4([k \in 1..4 |-> sub.points[k].x]) = 2
            /\ DistinctOf4([k \in 1..4 |-> sub.points[k].y]) = 2
         THEN "rectangle"
         ELSE "polyline"

IsLine(sub) == KindOf(sub) = "line"

IsRectangle(sub) == KindOf(sub) = "rectangle"

IsPolyline(sub) == KindOf(sub) = "polyline"

\* the elements a step appended to a sequence that only grows
Added(before, after) == SubSeq(after, Len(before) + 1, Len(after))

\* C8: when a path ends, every finished subpath adds exactly one entity, by
\* the rules in order: 2 points give a line; else >= 4 points, closed, and 2
\* distinct x and 2 distinct y among the first 4 points (tolerance 0.5) give a
\* rectangle; else a polyline of the same points and the same closed flag
C8_OneEntityPerSubpath ==
    [][ EndStep =>
          LET subs  == all_subpaths'
              lines == SelectSeq(subs, IsLine)
              rects == SelectSeq(subs, IsRectangle)
              polys == SelectSeq(subs, IsPolyline)
          IN  /\ SubSeq(data'.lines, 1, Len(data.lines)) = data.lines
              /\ SubSeq(data'.rectangles, 1, Len(data.rectangles)) = data.rectangles
              /\ SubSeq(data'.polylines, 1, Len(data.polylines)) = data.polylines
              /\ Len(Added(data.lines, data'.lines)) = Len(lines)
              /\ Len(Added(data.rectangles, data'.rectangles)) = Len(rects)
              /\ Len(Added(data.polylines, data'.polylines)) = Len(polys)
              /\ \A k \in 1..Len(lines) :
                    LET l == Added(data.lines, data'.lines)[k]
                    IN  l.start = lines[k].points[1] /\ l.end = lines[k].points[2]
              /\ \A k \in 1..Len(polys) :
                    LET pl == Added(data.polylines, data'.polylines)[k]
                    IN  pl.points = polys[k].points /\ pl.closed = polys[k].closed ]_vars

\* C8 witness: a path has ended with two subpaths of different kinds, one of
\* them classified as a rectangle and recorded as the only Rectangle
C8_Witness ==
    /\ pc = "paths"
    /\ Len(all_subpaths) = 2
    /\ KindOf(all_subpaths[1]) # KindOf(all_subpaths[2])
    /\ \E k \in 1..2 : IsRectangle(all_subpaths[k])
    /\ Len(data.rectangles) = 1

\* C9: when a filled path ends, every closed subpath with >= 3 points has got
\* a hatch whose boundary path is the points of the subpath, whether the
\* subpath became a rectangle or a polyline
C9_FilledClosedHasHatch ==
    [][ (EndStep /\ st.fill_color # << >>) =>
          \A k \in 1..Len(all_subpaths') :
             LET sub == all_subpaths'[k]
             IN  (sub.closed /\ Len(sub.points) >= 3) =>
                    \E j \in 1..Len(Added(data.hatches, data'.hatches)) :
                       Added(data.hatches, data'.hatches)[j].boundary_paths = << sub.points >> ]_vars

\* C10: every rectangle has a width > 0 and a height > 0
C10_RectanglePositive ==
    \A k \in 1..Len(data.rectangles) :
       data.rectangles[k].width > 0 /\ data.rectangles[k].height > 0


\* the closed subpath (0,0), (10,0), (10,5), (0,5)
Example4 ==
    << Point(0, 0), Point(10 * Unit, 0), Point(10 * Unit, 5 * Unit), Point(0, 5 * Unit) >>

\* saving Example4 as a closed subpath adds nothing but one Rectangle with
\* corner (0,0), width 10 and height 5
Example4IsRectangle ==
    LET d == _save_path_entity(Example4, TRUE, st, data)
    IN  /\ d.lines = data.lines /\ d.polylines = data.polylines /\ d.hatches = data.hatches
        /\ Len(d.rectangles) = Len(data.rectangles) + 1
        /\ Last(d.rectangles).corner = Point(0, 0)
        /\ Last(d.rectangles).width = 10 * Unit
        /\ Last(d.rectangles).height = 5 * Unit

\* C11: the closed subpath (0,0),(10,0),(10,5),(0,5) is saved as the Rectangle
\* with corner (0,0), width 10 and height 5; and when a path ends, the k-th
\* Rectangle it added has, for the k-th subpath classified as a rectangle,
\* corner = (least x, least y) and corner + (width, height) = (greatest x,
\* greatest y) of the first 4 points of that subpath
C11_RectangleExtent ==
    [][ /\ Example4IsRectangle
        /\ EndStep =>
             LET rects == SelectSeq(all_subpaths', IsRectangle)
             IN  \A k \in 1..Len(rects) :
                    LET r == Added(data.rectangles, data'.rectangles)[k]
                        p == rects[k].points
                    IN  /\ \A i \in 1..4 : /\ r.corner.x <= p[i].x
                                           /\ r.corner.y <= p[i].y
                                           /\ p[i].x <= r.corner.x + r.width
                                           /\ p[i].y <= r.corner.y + r.height
                        /\ \E i \in 1..4 : r.corner.x = p[i].x
                        /\ \E i \in 1..4 : r.corner.y = p[i].y
                        /\ \E i \in 1..4 : r.corner.x + r.width = p[i].x
                        /\ \E i \in 1..4 : r.corner.y + r.height = p[i].y ]_vars

\* C11 witness: a path has ended whose only subpath was classified as a
\* rectangle and does not begin at the corner of the Rectangle recorded
C11_Witness ==
    /\ pc = "paths"
    /\ Len(all_subpaths) = 1
    /\ IsRectangle(all_subpaths[1])
    /\ Len(data.rectangles) = 1
    /\ all_subpaths[1].points[1] # data.rectangles[1].corner
    /\ data.rectangles[1].width > 0



\* ----------------------------------------------------- the fitters in convert

\* the step of convert that applies detect_circles_and_arcs to the page
CircleStep == cpc = "circles" /\ cpc' = "ellipses" /\ detect_geometry

\* the step of convert that applies detect_ellipses to the page
EllipseStep == cpc = "ellipses" /\ cpc' = "append" /\ detect_ellipse

RECURSIVE SelectKind(_, _, _, _)
\* the elements of seq, from the k-th on, whose place has the kind what
SelectKind(seq, kind, what, k) ==
    IF k > Len(seq) THEN << >>
    ELSE (IF kind[k] = what THEN << seq[k] >> ELSE << >>) \o SelectKind(seq, kind, what, k + 1)

\* the color, width, layer and linetype of the entities of a list
Styles(seq) == [k \in 1..Len(seq) |-> << seq[k].color, seq[k].width, seq[k].layer, seq[k].linetype >>]

\* seq from its k+1-th element on
From(seq, k) == SubSeq(seq, k + 1, Len(seq))

\* a polyline the circle fitter rejects: too few points, no fit,
\* radius <= 0.5, or RMS residual >= tolerance x radius
Rejected(polyline) ==
    \/ Len(polyline.points) < 6
    \/ LET fit == _fit_circle(polyline.points)
       IN  \/ IsNone(fit)
           \/ ~RLess(Rat(5, 10), Val(fit).radius)
           \/ ~RLess(Val(fit).error, RMul(Rat(2, 100), Val(fit).radius))

\* C12: detect_circles_and_arcs gives every polyline exactly one outcome: the
\* rejected polylines (too few points, no fit, radius <= 0.5, residual >=
\* tolerance x radius) are the polylines afterwards, unchanged and in their
\* order; each other polyline is gone from the polylines and has exactly one
\* Circle or one Arc appended, with its color, width, layer and linetype; so
\* polylines + circles + arcs are as many as before.
C12_OneOutcomePerPolyline ==
    [][ CircleStep =>
          /\ \E kind \in [1..Len(page_data.polylines) -> {"polyline", "circle", "arc"}] :
                /\ \A k \in 1..Len(page_data.polylines) :
                      kind[k] = "polyline" <=> Rejected(page_data.polylines[k])
                /\ page_data'.polylines = SelectKind(page_data.polylines, kind, "polyline", 1)
                /\ SubSeq(page_data'.circles, 1, Len(page_data.circles)) = page_data.circles
                /\ Styles(From(page_data'.circles, Len(page_data.circles)))
                      = Styles(SelectKind(page_data.polylines, kind, "circle", 1))
                /\ SubSeq(page_data'.arcs, 1, Len(page_data.arcs)) = page_data.arcs
                /\ Styles(From(page_data'.arcs, Len(page_data.arcs)))
                      = Styles(SelectKind(page_data.polylines, kind, "arc", 1))
          /\ page_data'.ellipses = page_data.ellipses
          /\ Len(page_data'.polylines) + Len(page_data'.circles) + Len(page_data'.arcs)
                = Len(page_data.polylines) + Len(page_data.circles) + Len(page_data.arcs)
      ]_vars

\* a page of three polylines after detect_circles_and_arcs: the second became
\* an Arc, the first and the third stay, in their order
C12_Witness ==
    /\ cpc = "ellipses"
    /\ applied = << "detect_circles_and_arcs" >>
    /\ page_data.polylines = << BentLine, Five >>
    /\ Len(page_data.arcs) = 1
    /\ page_data.arcs[1].color = Seven.color
    /\ page_data.circles = << >>

\* the 16 points of a 270 degree sweep of a circle, in either direction
Sweep270 == {Arc270(FALSE).points, Arc270Clockwise.points}

\* C13: a polyline of 16 points of a circle restricted to a 270 degree
\* sweep becomes an Arc and never a Circle, closed or not, and the Arc runs
\* counter-clockwise over the points: from 0 to 270 degrees.
C13_Sweep270IsArc ==
    [][ (CircleStep /\ Len(page_data.polylines) = 1
                    /\ page_data.polylines[1].points \in Sweep270) =>
          /\ page_data'.circles = << >>
          /\ page_data'.polylines = << >>
          /\ Len(page_data'.arcs) = 1
          /\ page_data'.arcs[1].start_angle = 0
          /\ page_data'.arcs[1].end_angle = 270000
      ]_vars

\* the angular coverage of the points of a polyline about the center fitted to them
Coverage(polyline) ==
    total_coverage(PointAngles(polyline.points, Val(_fit_circle(polyline.points)).center))

\* an accepted polyline that is closed, has >= 8 points and has angular
\* coverage > 0.9 x 2 pi
FullCircle(polyline) ==
    /\ ~Rejected(polyline)
    /\ polyline.closed
    /\ Len(polyline.points) >= 8
    /\ 10 * Coverage(polyline) > 9 * TwoPi

ArcPolylines(polylines) ==
    SelectKind(polylines,
               [k \in 1..Len(polylines) |->
                   IF Rejected(polylines[k]) THEN "polyline"
                   ELSE IF FullCircle(polylines[k]) THEN "circle" ELSE "arc"],
               "arc", 1)

\* the bearing of p from the center, in thousandths of a degree from 0 to 360
Bearing(center, p) ==
    (Degrees(RAtan2(RSub(p.y, center[2]), RSub(p.x, center[1]))) + 360000) % 360000

\* the angles the claim gives the Arc of a polyline: the bearings of its
\* first and last point from the fitted center, swapped when the signed area
\* of the points about the center is <= 0
SweepOf(polyline) ==
    LET center == Val(_fit_circle(polyline.points)).center
        first  == Bearing(center, polyline.points[1])
        last   == Bearing(center, Last(polyline.points))
    IN  IF RLess(Q(0), signed_area(polyline.points, center))
        THEN << first, last >> ELSE << last, first >>

RECURSIVE ShortOnes(_, _)
\* the polylines of fewer than 6 points, from the k-th on, in their order
ShortOnes(polylines, k) ==
    IF k > Len(polylines) THEN << >>
    ELSE (IF Len(polylines[k].points) < 6 THEN << polylines[k] >> ELSE << >>)
         \o ShortOnes(polylines, k + 1)

\* C16: detect_circles_and_arcs leaves every polyline of fewer than 6 points
\* in data.polylines, unchanged, and creates no Circle or Arc from it; and
\* every Circle and Arc it creates has radius > 0.5.
C16_ShortPolylinesKept ==
    [][ CircleStep =>
          LET circles == From(page_data'.circles, Len(page_data.circles))
              arcs    == From(page_data'.arcs, Len(page_data.arcs))
              short   == ShortOnes(page_data.polylines, 1)
          IN  /\ ShortOnes(page_data'.polylines, 1) = short
              /\ Len(circles) + Len(arcs) <= Len(page_data.polylines) - Len(short)
              /\ Len(circles) + Len(arcs) + Len(page_data'.polylines) = Len(page_data.polylines)
              /\ \A k \in 1..Len(circles) : RLess(Rat(5, 10), circles[k].radius)
              /\ \A k \in 1..Len(arcs) : RLess(Rat(5, 10), arcs[k].radius)
      ]_vars

\* the 3 collinear points are still a polyline after detect_circles_and_arcs
\* made a Circle of the other polyline of their page
C16_Witness ==
    /\ cpc = "ellipses"
    /\ applied = << "detect_circles_and_arcs" >>
    /\ page_data.polylines = << Three >>
    /\ Len(page_data.circles) = 1
    /\ page_data.arcs = << >>

\* the ratios minor : major _fit_ellipse can fit to a polyline of 8 points or
\* more, over the eigenvectors the solver can yield
FittedRatios(polyline) ==
    IF Len(polyline.points) < 8 THEN {}
    ELSE Let({_fit_ellipse(polyline.points, eig, Conics) : eig \in {"plus", "minus"}} \ {None},
             LAMBDA fits :
                 {RDiv(Hypot(Val(fit).minor_axis), Hypot(Val(fit).major_axis)) : fit \in fits})

\* every ratio that can be fitted to the polyline satisfies Near, and there is one
AllRatios(polyline, Near(_)) ==
    Let(FittedRatios(polyline), LAMBDA ratios : ratios # {} /\ \A r \in ratios : Near(r))

\* the elements of a sequence
Elements(seq) == {seq[k] : k \in 1..Len(seq)}

\* the Ellipses a step appends
NewEllipses == From(page_data'.ellipses, Len(page_data.ellipses))

Tip(e) == Point(RAdd(e.center.x, e.major_axis.x), RAdd(e.center.y, e.major_axis.y))

\* C18: the Ellipse made of an open polyline has start_param and end_param
\* in [0, 2 pi), and a first (last) point at the tip of the major axis gets
\* start_param (end_param) 0, whatever the rotation of the ellipse.
C18_ParamsFromMajorAxis ==
    [][ (EllipseStep /\ Len(page_data.polylines) = 1 /\ ~page_data.polylines[1].closed
                     /\ Len(NewEllipses) = 1) =>
          LET e == NewEllipses[1]
              points == page_data.polylines[1].points
          IN  /\ 0 <= e.start_param /\ e.start_param < TwoPi
              /\ 0 <= e.end_param /\ e.end_param < TwoPi
              /\ points[1] = Tip(e) => e.start_param = 0
              /\ Last(points) = Tip(e) => e.end_param = 0
      ]_vars

\* C19: on every page, detect_ellipses is applied only after
\* detect_circles_and_arcs has been applied to that page, whatever the
\* options of the conversion.
C19_CirclesBeforeEllipses ==
    \A k \in 1..Len(applied) :
        applied[k] = "detect_ellipses" =>
            \E j \in 1..(k - 1) : applied[j] = "detect_circles_and_arcs"

\* C20: an exception on one page does not abort the others: when convert
\* has returned, the pages whose extraction did not fail are in its output.
C20_SiblingPagesSurvive ==
    (cpc = "done" /\ Len(extracted_pages) > 0) =>
        /\ Val(result).success
        /\ Val(result).pages_processed = Len(extracted_pages)
        /\ \A k \in 1..Len(extracted_pages) :
              \E f \in 1..Len(Val(result).output_files) :
                  \E j \in 1..Len(Val(result).output_files[f].pages) :
                      Val(result).output_files[f].pages[j] = pages_to_process[k]

\* -------------------------------------------------- interleaved invocations

\* the points extract_page(page_num, s) gives when it runs alone
Alone(points, s) ==
    [k \in 1..Len(points) |-> Point(points[k].x * s, (page_height - points[k].y) * s)]

\* C21: an invocation of extract_page interleaved with another on the same
\* extractor returns what it returns when it runs alone.
C21_InvocationsIsolated ==
    \A t \in Callers :
        calls[t].pc = "done" => calls[t].out = Alone(calls[t].points, calls[t].scale)

\* the evaluations of the helper op among the last two
Evals(op) == {evals[i] : i \in {j \in 1..Len(evals) : evals[j].op = op}}

\* C22: two points that are equal have the same hash.
C22_HashConsistent ==
    \A e \in Evals("hash") : e.out[1] => e.out[2] = e.out[3]

\* the first and the last argument of a flattening: the ends of the curve
ChordOf(e) == distance_to(e.args[1], e.args[Len(e.args)])

\* the length of the control polygon of a flattening
ControlOf(e) ==
    LET a == e.args
    IN  IF Len(a) = 4
        THEN distance_to(a[1], a[2]) + distance_to(a[2], a[3]) + distance_to(a[3], a[4])
        ELSE distance_to(a[1], a[2]) + distance_to(a[2], a[3])

\* of two flattenings with the same chord the one with the longer control
\* polygon has no fewer points, and the number of points is within the bounds
Adaptive(op, least, most) ==
    /\ \A e \in Evals(op) : Len(e.out) >= least /\ Len(e.out) <= most
    /\ \A e1 \in Evals(op), e2 \in Evals(op) :
            ChordOf(e1) = ChordOf(e2) /\ ControlOf(e1) <= ControlOf(e2)
                => Len(e1.out) <= Len(e2.out)

\* C23: for one chord the number of points of a flattened curve does not
\* decrease as the control polygon grows longer; a cubic (base 16) is
\* flattened into 17 to 65 points and a quadratic (base 12) into 13 to 33.
C23_AdaptiveMonotone == Adaptive("cubic", 17, 65) /\ Adaptive("quad", 13, 33)

\* two cubics of one chord, flattened into 17 and into 65 points
C23_Witness ==
    /\ Len(evals) = 2
    /\ evals[1].op = "cubic"
    /\ ChordOf(evals[1]) = ChordOf(evals[2])
    /\ ControlOf(evals[1]) < ControlOf(evals[2])
    /\ Len(evals[1].out) = 17
    /\ Len(evals[2].out) = 65

\* the flattenings of curves that end within 0.001 of where they start
ZeroChord(op) ==
    {e \in Evals(op) : ~FartherThanMilli(e.args[1], e.args[Len(e.args)])}

\* C24 as stated: a curve with zero chord is flattened into min_segments + 1
\* points (17 for a cubic, 13 for a quadratic) whatever its control points.
C24_ZeroChordMinimum ==
    /\ \A e \in ZeroChord("cubic") : Len(e.out) = 16 + 1
    /\ \A e \in ZeroChord("quad") : Len(e.out) = 12 + 1

\* C24: a curve with zero chord skips the ratio tiers: a quadratic is
\* flattened into min_segments + 1 points, and a cubic into min_segments + 1
\* points unless its control polygon is longer than 50 (then 25 points) or
\* longer than 100 (then 33 points).
C24_ZeroChordFloor ==
    /\ \A e \in ZeroChord("cubic") :
            Len(e.out) = 1 + (IF ControlOf(e) > 100 * 1000 THEN 32
                              ELSE IF ControlOf(e) > 50 * 1000 THEN 24 ELSE 16)
    /\ \A e \in ZeroChord("quad") : Len(e.out) = 12 + 1

\* a cubic that ends where it starts, with a control polygon between 50 and
\* 100 long, flattened into 25 points
C24_Witness ==
    \E e \in ZeroChord("cubic") :
        /\ e.args[1] = e.args[4]
        /\ ControlOf(e) > 50 * 1000
        /\ ControlOf(e) <= 100 * 1000
        /\ Len(e.out) = 25

\* what the flattener returns for the curve item it from the current point p0
Flattened(it, p0) ==
    LET p == [i \in 1..Len(it.pts) |-> _transform_point(it.pts[i])]
    IN  CASE it.cmd = "c" -> _bezier_to_points(p0, p[1], p[2], p[3], 16)
          [] it.cmd = "v" -> _bezier_to_points(p0, p0, p[1], p[2], 16)
          [] it.cmd = "y" -> _bezier_to_points(p0, p[1], p[2], p[2], 16)
          [] it.cmd = "qu" -> _quad_bezier_to_points(p0, p[1], p[2], 12)

\* C25: the flattener returns at least segments + 1 points, the first being
\* p0 and the last the end point of the curve; a curve item met with a
\* current point appends them without the first, so that the subpath in
\* progress ends at the new current point.
C25_FlattenEndsAtCurrent ==
    [][ \A cmd \in CurveCmds :
          (ItemStep(cmd) /\ ~IsNone(current_point)) =>
              LET out == Flattened(item', Val(current_point))
                  end == _transform_point(item'.pts[Len(item'.pts)])
              IN  /\ Len(out) >= (IF cmd = "qu" THEN 12 ELSE 16) + 1
                  /\ out[1] = Val(current_point)
                  /\ out[Len(out)] = end
                  /\ path_points' = path_points \o Rest(out)
                  /\ current_point' = Some(end)
                  /\ path_points'[Len(path_points')] = end ]_vars

\* a subpath in progress that a curve item has just extended: it ends at the
\* current point, after the points of the flattened curve
C25_Witness ==
    /\ pc = "items"
    /\ idx > 0
    /\ item.cmd \in CurveCmds
    /\ has_curves
    /\ ~IsNone(current_point)
    /\ Len(path_points) > 12 + 1
    /\ path_points[Len(path_points)] = Val(current_point)
    /\ path_points[Len(path_points)] = _transform_point(item.pts[Len(item.pts)])

\* the entities a step appends to the list named what of the page
Appended(what) == From(page_data'[what], Len(page_data[what]))

\* C26: the fitters copy the style: the polylines that detect_circles_and_arcs
\* or detect_ellipses does not keep are replaced, in their order, by Circles,
\* Arcs and Ellipses that carry exactly the color, width, layer and linetype
\* of their polyline.
C26_StylesCarried ==
    [][ (CircleStep \/ EllipseStep) =>
          \E kind \in [1..Len(page_data.polylines) -> {"polylines", "circles", "arcs", "ellipses"}] :
              /\ page_data'.polylines = SelectKind(page_data.polylines, kind, "polylines", 1)
              /\ \A what \in {"circles", "arcs", "ellipses"} :
                    Styles(Appended(what)) = Styles(SelectKind(page_data.polylines, kind, what, 1))
      ]_vars

\* the page of a circle, a hexagon and an ellipse, each with a style of its
\* own, after both fitters: a Circle, an Arc and an Ellipse with those styles
C26_Witness ==
    /\ cpc = "append"
    /\ page_data.polylines = << >>
    /\ Styles(page_data.circles) = Styles(<< Full5 >>)
    /\ Styles(page_data.arcs) = Styles(<< Hexagon >>)
    /\ Styles(page_data.ellipses) = Styles(<< OvalUp >>)

\* the widest empty gap between neighbouring bearings of the points about
\* the center, the gap from the last bearing round to the first included
WidestGap(points, center) ==
    Let(Sorted(PointAngles(points, center)), LAMBDA angles :
        LET gaps == {angles[k + 1] - angles[k] : k \in 1..(Len(angles) - 1)}
                        \cup {TwoPi - (Last(angles) - angles[1])}
        IN  CHOOSE g \in gaps : \A h \in gaps : h <= g)

\* C27: _is_full_circle answers True only for points whose bearings really
\* cover 90% of the turn: never when some empty gap between neighbouring
\* bearings, the wrap-around included, is wider than 10% of 2 pi.
C27_NoWideGapWhenFull ==
    cpc = "circles" =>
        \A k \in 1..Len(page_data.polylines) :
            LET polyline == page_data.polylines[k]
            IN  ~Rejected(polyline) =>
                    LET fit == Val(_fit_circle(polyline.points))
                    IN  _is_full_circle(polyline.points, fit.center, fit.radius)
                            => 10 * WidestGap(polyline.points, fit.center) <= TwoPi

\* C28: no Arc that detect_circles_and_arcs emits has start_angle equal to
\* end_angle; a closed polyline of 6 or more points whose last point repeats
\* the first is never turned into such an Arc.
C28_ArcHasSweep ==
    [][ CircleStep =>
          \A k \in 1..Len(Appended("arcs")) :
              Appended("arcs")[k].start_angle # Appended("arcs")[k].end_angle
      ]_vars

\* p lies on the boundary of the Rectangle r, within the tolerance
OnBoundary(p, r) ==
    LET nearX  == Abs(p.x - r.corner.x) < tolerance \/ Abs(p.x - (r.corner.x + r.width)) < tolerance
        nearY  == Abs(p.y - r.corner.y) < tolerance \/ Abs(p.y - (r.corner.y + r.height)) < tolerance
        withinX == r.corner.x - tolerance < p.x /\ p.x < r.corner.x + r.width + tolerance
        withinY == r.corner.y - tolerance < p.y /\ p.y < r.corner.y + r.height + tolerance
    IN  (nearX /\ withinY) \/ (nearY /\ withinX)

\* the corner of the Rectangle r that p is at, within the tolerance, or << >>
CornerAt(p, r) ==
    LET atX == {i \in {0, 1} : Abs(p.x - (r.corner.x + i * r.width)) < tolerance}
        atY == {j \in {0, 1} : Abs(p.y - (r.corner.y + j * r.height)) < tolerance}
    IN  IF atX = {} \/ atY = {} THEN << >>
        ELSE << CHOOSE i \in atX : TRUE, CHOOSE j \in atY : TRUE >>

\* C29: when a path ends, every point of a subpath classified as a rectangle
\* lies on the boundary of the Rectangle added for it, within 0.5, and the
\* first 4 points of the subpath are at the 4 distinct corners of the Rectangle.
C29_RectangleKeepsGeometry ==
    [][ EndStep =>
          LET rects == SelectSeq(all_subpaths', IsRectangle)
          IN  \A k \in 1..Len(rects) :
                 LET r == Added(data.rectangles, data'.rectangles)[k]
                     p == rects[k].points
                 IN  /\ \A i \in 1..Len(p) : OnBoundary(p[i], r)
                     /\ \A i \in 1..4 : CornerAt(p[i], r) # << >>
                     /\ \A i \in 1..4, j \in 1..4 :
                           i # j => CornerAt(p[i], r) # CornerAt(p[j], r) ]_vars

\* C30: convert returns success = True only with at least one output file,
\* whatever the page mode, the pages list, the output format, keep_dxf and
\* the outcomes of the DWG conversions; and with success = False it returns
\* no output file.
C30_SuccessHasOutput ==
    cpc = "done" =>
        /\ Val(result).success => Val(result).output_files # << >>
        /\ ~Val(result).success => Val(result).output_files = << >>

====
